---- MODULE Spec2Model ----
(***************************************************************************)
(* The semantic classification engine of smartinbox                         *)
(* (backend/app/services/semantic_classifier.py, local_embeddings.py).      *)
(*                                                                         *)
(* A text is a sequence of tokens: message fields are sequences of          *)
(* one-character strings, a category description is one token.  A vector   *)
(* is a pair of integers.  A similarity is the real number                  *)
(* sgn * sqrt(n2 / d2), kept exactly as the record [sgn, n2, d2] in lowest  *)
(* terms, so every comparison of the code is decided in integer arithmetic, *)
(* on the real value of the quotient (the rounding error of float64 is not  *)
(* modelled).                                                               *)
(***************************************************************************)
EXTENDS Integers, Sequences, FiniteSets, Bags, TLC

VARIABLES
    model,                 \* the embedding model the provider has loaded
    initialized,           \* SemanticEmailClassifier._initialized
    category_embeddings,   \* SemanticEmailClassifier._category_embeddings, in insertion order
    pc,                    \* per caller: the statement it is about to execute
    op,                    \* per caller: the call in progress, [name, emails, saw_initialized]
    embeddings,            \* per caller: local `embeddings` of initialize_category_embeddings
    init_i,                \* per caller: position of the zip loop, line 117
    all_embeddings,        \* per caller: local email_embedding / all_embeddings
    ret,                   \* per caller: outcome of its last call
    made,                  \* per caller: provider calls issued by its current call
    ncalls,                \* per caller: calls started so far
    init_embed_calls,      \* category-exemplar batch calls issued to the provider
    init_embed_failed,     \* those of them the provider failed
    init_writers,          \* callers that wrote category vectors
    classifier_instance,   \* semantic_classifier._classifier_instance
    instances,             \* SemanticEmailClassifier objects constructed so far
    ready_instances,       \* the objects whose category registry was initialized
    gpc,                   \* per caller: its position in get_semantic_classifier
    got,                   \* per caller: the object its last call returned
    gcalls,                \* per caller: calls of get_semantic_classifier started
    emails_table,          \* rows of the table `emails`, as [user_id, gmail_id]
    sync_run,              \* the last run of sync_emails_from_gmail
    rate_limit_store,      \* routes.rate_limit_store, per user key
    clock,                 \* time()
    sends,                 \* per user key: arrival times of the successful sends
    response               \* the last request of send_email and what it did

\* the state of the application around the classifier
instanceVars == <<classifier_instance, instances, ready_instances, gpc, got, gcalls>>
syncVars == <<emails_table, sync_run>>
sendVars == <<rate_limit_store, clock, sends, response>>
appVars == <<instanceVars, syncVars, sendVars>>

\* the state of one SemanticEmailClassifier and of its callers
classifierVars == <<model, initialized, category_embeddings, pc, op, embeddings, init_i,
                    all_embeddings, ret, made, ncalls, init_embed_calls, init_embed_failed,
                    init_writers>>

vars == <<classifierVars, appVars>>

-----------------------------------------------------------------------------
(* Bounds *)

NumCallers == 2        \* callers sharing the classifier
MaxCalls == 2          \* calls made in a concurrent run, by all callers together
MaxSeqCalls == 3       \* calls of the single caller of a sequential run
MaxBatch == 2          \* messages in a batch of a sequential run
MaxFieldCalls == 2     \* calls made on one message in a run over the field combinations

Callers == 1..NumCallers

-----------------------------------------------------------------------------
(* Calibration literals of the decision policy *)

SCALE == 150
CEILING == 95
MIN_CONFIDENCE == 30
PRIMARY_CONFIDENCE == 50
LABEL_THRESHOLD == 40
TOP_N == 3
CONTENT_LIMIT == 1500

-----------------------------------------------------------------------------
(* Generic helpers *)

Min(a, b) == IF a < b THEN a ELSE b

Abs(x) == IF x < 0 THEN -x ELSE x

RECURSIVE Gcd(_, _)
Gcd(a, b) == IF b = 0 THEN a ELSE Gcd(b, a % b)

Range(s) == {s[i] : i \in 1..Len(s)}

\* Python's None: a value that is no str (a str is a sequence of
\* one-character tokens)
None == <<"None">>

\* an argument that the call does not pass, a key that the dict does not have
Missing == <<"Missing">>

\* Truthy as the test `x != ""`
Truthy_NotEmptyString(x) == x # <<>>

\* `if x:` for x a str or None
Truthy(x) == x # None /\ Len(x) > 0

RECURSIVE Join(_, _)
\* sep.join(parts) for texts
Join(parts, sep) ==
    IF Len(parts) = 0 THEN <<>>
    ELSE IF Len(parts) = 1 THEN parts[1]
    ELSE parts[1] \o sep \o Join(Tail(parts), sep)

-----------------------------------------------------------------------------
(* CATEGORY_DESCRIPTIONS, a dict: keys in insertion order *)

CategoryNames == <<"work", "personal", "social", "promotions", "updates", "finance", "newsletters">>

CATEGORY_DESCRIPTIONS ==
    [work |-> <<"Professional work email about meetings, projects, deadlines",
                "Office communication regarding tasks, assignments, reports",
                "Business correspondence with colleagues and managers",
                "Job-related emails about interviews, recruitment, career",
                "Team collaboration on Slack, Jira, GitHub, pull requests",
                "Corporate announcements and company updates",
                "Calendar invites and meeting schedules">>,
     personal |-> <<"Personal email from friends and family",
                    "Casual conversation about life, plans, gatherings",
                    "Birthday wishes, congratulations, personal news",
                    "Vacation plans, trip discussions, photo sharing",
                    "Catching up with old friends, reunion planning",
                    "Personal matters and family discussions">>,
     social |-> <<"Social media notifications from Facebook, Twitter, LinkedIn",
                  "Someone liked, commented, or shared your post",
                  "New follower or friend request notification",
                  "Social network activity and engagement alerts",
                  "Instagram, TikTok, YouTube notifications",
                  "Connection requests and social updates">>,
     promotions |-> <<"Marketing email with sales, discounts, special offers",
                      "Promotional content about deals and limited time offers",
                      "E-commerce notifications about new products",
                      "Coupon codes, vouchers, and promotional campaigns",
                      "Black Friday, holiday sales, clearance events",
                      "Shopping recommendations and product suggestions">>,
     updates |-> <<"Account security alerts and password notifications",
                   "Service updates and system notifications",
                   "Order confirmation, shipping, and delivery updates",
                   "App updates and software notifications",
                   "Account verification and login alerts",
                   "Subscription and service status updates">>,
     finance |-> <<"Bank statement and financial transaction alerts",
                   "Payment confirmation, invoice, and billing",
                   "Credit card and banking notifications",
                   "Investment updates and financial reports",
                   "Tax documents and financial statements",
                   "Money transfer and payment receipts">>,
     newsletters |-> <<"Newsletter digest and content roundup",
                       "Weekly or daily news briefing",
                       "Blog updates and article recommendations",
                       "Industry news and curated content",
                       "Substack, Medium, and publication updates",
                       "Educational content and learning resources">>]

-----------------------------------------------------------------------------
(* local_embeddings.cosine_similarity and the comparisons made on its value *)

Dot(a, b) == a[1] * b[1] + a[2] * b[2]

NormSq(a) == Dot(a, a)

Sgn(x) == IF x < 0 THEN -1 ELSE IF x > 0 THEN 1 ELSE 0

ZeroSim == [sgn |-> 0, n2 |-> 0, d2 |-> 1]

\* cosine_similarity without the check of the norms: 0 / 0 is nan
cosine_similarity_NoGuard(vec1, vec2) ==
    LET dot_product == Dot(vec1, vec2)
        den == NormSq(vec1) * NormSq(vec2)
    IN  IF den = 0 THEN [sgn |-> 0, n2 |-> 0, d2 |-> 0]
        ELSE IF dot_product = 0 THEN ZeroSim
        ELSE LET g == Gcd(dot_product * dot_product, den)
             IN  [sgn |-> Sgn(dot_product),
                  n2 |-> (dot_product * dot_product) \div g,
                  d2 |-> den \div g]

cosine_similarity(vec1, vec2) ==
    LET dot_product == Dot(vec1, vec2)
        den == NormSq(vec1) * NormSq(vec2)      \* (norm1 * norm2) squared
    IN  IF NormSq(vec1) = 0 \/ NormSq(vec2) = 0 THEN ZeroSim
        ELSE IF dot_product = 0 THEN ZeroSim
        ELSE LET g == Gcd(dot_product * dot_product, den)
             IN  [sgn |-> Sgn(dot_product),
                  n2 |-> (dot_product * dot_product) \div g,
                  d2 |-> den \div g]

\* a < b on floats
SimLess(a, b) ==
    IF a.sgn # b.sgn THEN a.sgn < b.sgn
    ELSE IF a.sgn = 0 THEN FALSE
    ELSE IF a.sgn = 1 THEN a.n2 * b.d2 < b.n2 * a.d2
    ELSE a.n2 * b.d2 > b.n2 * a.d2

\* s >= p / q for integers p and q > 0
SimGeq(s, p, q) ==
    IF p <= 0
    THEN s.sgn >= 0 \/ s.n2 * q * q <= p * p * s.d2
    ELSE s.sgn = 1 /\ s.n2 * q * q >= p * p * s.d2

-----------------------------------------------------------------------------
(* The decision steps shared by classify (lines 147-181) and the loop body  *)
(* of classify_batch (lines 249-282).  `registry` is the dict                *)
(* _category_embeddings as a sequence of [cat, vec] in insertion order.      *)

\* similarities: Dict[str, float], in the order the registry is iterated
Similarities(email_embedding, registry) ==
    [i \in 1..Len(registry) |->
        [cat |-> registry[i].cat,
         sim |-> cosine_similarity(email_embedding, registry[i].vec)]]

\* MaxKeyIndex that keeps the last of the keys with the greatest value
MaxKeyIndex_Last(similarities) ==
    CHOOSE i \in 1..Len(similarities) :
        /\ \A j \in 1..Len(similarities) : ~SimLess(similarities[i].sim, similarities[j].sim)
        /\ \A j \in (i + 1)..Len(similarities) : SimLess(similarities[j].sim, similarities[i].sim)

\* max(similarities, key=similarities.get): the first key, in iteration
\* order, whose value no other value exceeds
MaxKeyIndex(similarities) ==
    CHOOSE i \in 1..Len(similarities) :
        /\ \A j \in 1..Len(similarities) : ~SimLess(similarities[i].sim, similarities[j].sim)
        /\ \A j \in 1..(i - 1) : SimLess(similarities[j].sim, similarities[i].sim)

\* Confidence with round() in place of int()
Confidence_Rounded(best_similarity) ==
    CHOOSE k \in 0..CEILING :
        /\ SimGeq(best_similarity, 2 * k - 1, 2 * SCALE)
        /\ (k < CEILING => ~SimGeq(best_similarity, 2 * k + 1, 2 * SCALE))

\* Confidence without the cap: int(max(0, best_similarity * 150))
Confidence_Uncapped(best_similarity) ==
    CHOOSE k \in 0..SCALE :
        /\ SimGeq(best_similarity, k, SCALE)
        /\ (k < SCALE => ~SimGeq(best_similarity, k + 1, SCALE))

\* int(min(95, max(0, best_similarity * 150))): int() truncates, and the
\* value is not negative, so this is the floor
Confidence(best_similarity) ==
    CHOOSE k \in 0..CEILING :
        /\ SimGeq(best_similarity, k, SCALE)
        /\ (k < CEILING => ~SimGeq(best_similarity, k + 1, SCALE))

\* Labels with the threshold taken on the similarity as a percentage, sim * 100 >= 40
Labels_Unscaled(best_category, similarities) ==
    LET others == SelectSeq(similarities,
                      LAMBDA e : e.cat # best_category /\ SimGeq(e.sim, LABEL_THRESHOLD, 100))
        labels == <<best_category>> \o [i \in 1..Len(others) |-> others[i].cat]
    IN  SetToBag(Range(labels))

\* Labels that adds every other category of positive similarity
Labels_AllPositive(best_category, similarities) ==
    LET others == SelectSeq(similarities,
                      LAMBDA e : e.cat # best_category /\ e.sim.sgn = 1)
        labels == <<best_category>> \o [i \in 1..Len(others) |-> others[i].cat]
    IN  SetToBag(Range(labels))

\* labels = [best_category] + every other cat with sim * 150 >= 40, then
\* list(set(labels)): a list in no specified order, kept as the bag of its elements
Labels(best_category, similarities) ==
    LET others == SelectSeq(similarities,
                      LAMBDA e : e.cat # best_category /\ SimGeq(e.sim, LABEL_THRESHOLD, SCALE))
        labels == <<best_category>> \o [i \in 1..Len(others) |-> others[i].cat]
    IN  SetToBag(Range(labels))

\* f"{sim:.2f}": sign and hundredths of the rounded magnitude
Format2f(sim) ==
    [neg |-> sim.sgn < 0,
     hundredths |->
        LET mag == [sim EXCEPT !.sgn = Abs(sim.sgn)]
        IN  CHOOSE h \in 0..100 :
                /\ SimGeq(mag, 2 * h - 1, 200)
                /\ (h < 100 => ~SimGeq(mag, 2 * h + 1, 200))]

\* SortedDescending that reverses a list sorted in ascending order: items of
\* equal similarity come out in the reverse of their iteration order
SortedDescending_ReversedAscending(similarities) ==
    LET n == Len(similarities)
        Rank(i) == Cardinality({j \in 1..n : SimLess(similarities[i].sim, similarities[j].sim)})
                   + Cardinality({j \in (i + 1)..n :
                                     ~SimLess(similarities[j].sim, similarities[i].sim)
                                     /\ ~SimLess(similarities[i].sim, similarities[j].sim)})
                   + 1
    IN  [r \in 1..n |-> similarities[CHOOSE i \in 1..n : Rank(i) = r]]

\* sorted(similarities.items(), key=lambda x: x[1], reverse=True): a stable sort,
\* items of equal similarity keep their iteration order
SortedDescending(similarities) ==
    LET n == Len(similarities)
        Rank(i) == Cardinality({j \in 1..n : SimLess(similarities[i].sim, similarities[j].sim)})
                   + Cardinality({j \in 1..(i - 1) :
                                     ~SimLess(similarities[j].sim, similarities[i].sim)
                                     /\ ~SimLess(similarities[i].sim, similarities[j].sim)})
                   + 1
    IN  [r \in 1..n |-> similarities[CHOOSE i \in 1..n : Rank(i) = r]]

\* reason: the top 3 (category, formatted similarity) pairs
Reason(similarities) ==
    LET sorted == SortedDescending(similarities)
        top_3 == SubSeq(sorted, 1, Min(TOP_N, Len(sorted)))
    IN  [i \in 1..Len(top_3) |-> [cat |-> top_3[i].cat, sim |-> Format2f(top_3[i].sim)]]

ValueError == [raised |-> "ValueError"]

\* ClassifyEmbedding with labels built around the best scored category, the
\* fallback applied to category and confidence only
ClassifyEmbedding_StaleLabels(email_embedding, registry) ==
    LET similarities == Similarities(email_embedding, registry)
    IN  IF Len(similarities) = 0 THEN ValueError
        ELSE
        LET best == similarities[MaxKeyIndex(similarities)]
            confidence == Confidence(best.sim)
            low == confidence < MIN_CONFIDENCE
        IN  [category |-> IF low THEN "primary" ELSE best.cat,
             confidence |-> IF low THEN PRIMARY_CONFIDENCE ELSE confidence,
             labels |-> Labels(best.cat, similarities),
             reason |-> Reason(similarities)]

\* ClassifyEmbedding that falls back to "primary" only when nothing is similar
\* at all (confidence 0)
ClassifyEmbedding_FallbackOnZero(email_embedding, registry) ==
    LET similarities == Similarities(email_embedding, registry)
    IN  IF Len(similarities) = 0 THEN ValueError
        ELSE
        LET best == similarities[MaxKeyIndex(similarities)]
            confidence == Confidence(best.sim)
            low == confidence = 0
            best_category == IF low THEN "primary" ELSE best.cat
        IN  [category |-> best_category,
             confidence |-> IF low THEN PRIMARY_CONFIDENCE ELSE confidence,
             labels |-> Labels(best_category, similarities),
             reason |-> Reason(similarities)]

\* classify, lines 147-181, for the embedding of the message
ClassifyEmbedding(email_embedding, registry) ==
    LET similarities == Similarities(email_embedding, registry)
    IN  IF Len(similarities) = 0 THEN ValueError     \* max() of an empty dict
        ELSE
        LET best == similarities[MaxKeyIndex(similarities)]
            confidence == Confidence(best.sim)
            low == confidence < MIN_CONFIDENCE
            best_category == IF low THEN "primary" ELSE best.cat
        IN  [category |-> best_category,
             confidence |-> IF low THEN PRIMARY_CONFIDENCE ELSE confidence,
             labels |-> Labels(best_category, similarities),
             reason |-> Reason(similarities)]

\* ClassifyBatchEmbedding without the low-confidence override
ClassifyBatchEmbedding_NoFallback(email_embedding, registry) ==
    LET similarities == Similarities(email_embedding, registry)
    IN  IF Len(similarities) = 0 THEN ValueError
        ELSE
        LET best == similarities[MaxKeyIndex(similarities)]
        IN  [category |-> best.cat,
             confidence |-> Confidence(best.sim),
             labels |-> Labels(best.cat, similarities),
             reason |-> Reason(similarities)]

\* ClassifyBatchEmbedding with the override of the confidence alone
ClassifyBatchEmbedding_KeepsCategory(email_embedding, registry) ==
    LET similarities == Similarities(email_embedding, registry)
    IN  IF Len(similarities) = 0 THEN ValueError
        ELSE
        LET best == similarities[MaxKeyIndex(similarities)]
            confidence == Confidence(best.sim)
            low == confidence < MIN_CONFIDENCE
        IN  [category |-> best.cat,
             confidence |-> IF low THEN PRIMARY_CONFIDENCE ELSE confidence,
             labels |-> Labels(best.cat, similarities),
             reason |-> Reason(similarities)]

\* classify_batch, lines 249-282: the loop body for one element of all_embeddings
ClassifyBatchEmbedding(email_embedding, registry) ==
    LET similarities == Similarities(email_embedding, registry)
    IN  IF Len(similarities) = 0 THEN ValueError
        ELSE
        LET best == similarities[MaxKeyIndex(similarities)]
            confidence == Confidence(best.sim)
            low == confidence < MIN_CONFIDENCE
            best_category == IF low THEN "primary" ELSE best.cat
        IN  [category |-> best_category,
             confidence |-> IF low THEN PRIMARY_CONFIDENCE ELSE confidence,
             labels |-> Labels(best_category, similarities),
             reason |-> Reason(similarities)]

-----------------------------------------------------------------------------
(* _prepare_email_text *)

SubjectPrefix == <<"S", "u", "b", "j", "e", "c", "t", ":", " ">>
FromPrefix == <<"F", "r", "o", "m", ":", " ">>
ContentPrefix == <<"C", "o", "n", "t", "e", "n", "t", ":", " ">>
Newline == <<"\n">>

\* sender.split('@')[0]: the characters before the first '@', all of them if there is none
BeforeAt(sender) ==
    IF \E i \in 1..Len(sender) : sender[i] = "@"
    THEN SubSeq(sender, 1, (CHOOSE i \in 1..Len(sender) :
                               /\ sender[i] = "@"
                               /\ \A j \in 1..(i - 1) : sender[j] # "@") - 1)
    ELSE sender

\* prepare_email_text that sends the whole content
prepare_email_text_Untruncated(subject, sender, content, sender_name) ==
    LET p1 == IF Truthy(subject) THEN <<SubjectPrefix \o subject>> ELSE <<>>
        p2 == IF Truthy(sender_name) THEN <<FromPrefix \o sender_name>>
              ELSE IF Truthy(sender) THEN <<FromPrefix \o BeforeAt(sender)>>
              ELSE <<>>
        p3 == IF Truthy(content) THEN <<ContentPrefix \o content>> ELSE <<>>
    IN  Join(p1 \o p2 \o p3, Newline)

prepare_email_text(subject, sender, content, sender_name) ==
    LET p1 == IF Truthy(subject) THEN <<SubjectPrefix \o subject>> ELSE <<>>
        p2 == IF Truthy(sender_name) THEN <<FromPrefix \o sender_name>>
              ELSE IF Truthy(sender) THEN <<FromPrefix \o BeforeAt(sender)>>
              ELSE <<>>
        p3 == IF Truthy(content)
              THEN <<ContentPrefix \o SubSeq(content, 1, Min(CONTENT_LIMIT, Len(content)))>>
              ELSE <<>>
    IN  Join(p1 \o p2 \o p3, Newline)

-----------------------------------------------------------------------------
(* The embedding provider (sentence-transformers behind local_embeddings):  *)
(* deterministic for a loaded model.  Each model embeds a text as the sum   *)
(* of the vectors of its tokens, and the empty text as a vector of its own. *)

Models == {"spread", "narrow"}

ZeroVec == <<0, 0>>

CategoryVector(m) ==
    IF m = "spread"
    THEN [work |-> <<0, 1>>, personal |-> <<2, 0>>, social |-> <<1, 0>>,
          promotions |-> <<0, -1>>, updates |-> <<1, 1>>, finance |-> <<-1, 0>>,
          newsletters |-> <<1, -1>>]
    ELSE [work |-> <<4, 5>>, personal |-> <<0, 0>>, social |-> <<-4, -5>>,
          promotions |-> <<6, 5>>, updates |-> <<5, -6>>, finance |-> <<0, 0>>,
          newsletters |-> <<-4, -5>>]

CharVector == [a |-> <<1, 0>>, h |-> <<0, 1>>, k |-> <<-5, 6>>, g |-> <<-2, 2>>]

EmptyTextVector(m) == IF m = "spread" THEN <<0, 1>> ELSE ZeroVec

TokenVector(m, tok) ==
    IF \E i \in 1..Len(CategoryNames) : CATEGORY_DESCRIPTIONS[CategoryNames[i]][1] = tok
    THEN CategoryVector(m)[CHOOSE c \in Range(CategoryNames) : CATEGORY_DESCRIPTIONS[c][1] = tok]
    ELSE IF tok \in DOMAIN CharVector THEN CharVector[tok]
    ELSE ZeroVec

RECURSIVE SumVectors(_, _)
SumVectors(m, text) ==
    IF Len(text) = 0 THEN ZeroVec
    ELSE IF Len(text) = 1 THEN TokenVector(m, text[1])
    ELSE LET half == Len(text) \div 2
             v == SumVectors(m, SubSeq(text, 1, half))
             r == SumVectors(m, SubSeq(text, half + 1, Len(text)))
         IN  <<v[1] + r[1], v[2] + r[2]>>

\* model.encode(text)
Encode(m, text) == IF Len(text) = 0 THEN EmptyTextVector(m) ELSE SumVectors(m, text)

\* local_embeddings.get_embedding
get_embedding(m, text) == Encode(m, text)

\* get_embeddings_batch that embeds each distinct text once
get_embeddings_batch_Unique(m, texts) ==
    LET first == SelectSeq([i \in 1..Len(texts) |-> i],
                           LAMBDA i : \A j \in 1..(i - 1) : texts[j] # texts[i])
    IN  [k \in 1..Len(first) |-> Encode(m, texts[first[k]])]

\* local_embeddings.get_embeddings_batch
get_embeddings_batch(m, texts) ==
    IF Len(texts) = 0 THEN <<>> ELSE [i \in 1..Len(texts) |-> Encode(m, texts[i])]

-----------------------------------------------------------------------------
(* The messages callers classify *)

Inbox ==
    << [subject |-> <<"a">>, sender |-> <<>>, content |-> <<>>, sender_name |-> <<>>],
       [subject |-> <<>>, sender |-> <<"k", "@", "a">>, content |-> <<>>, sender_name |-> <<>>],
       [subject |-> <<>>, sender |-> <<>>, content |-> <<>>, sender_name |-> <<>>],
       [subject |-> <<>>, sender |-> <<>>, content |-> <<"g">>, sender_name |-> <<>>],
       [subject |-> <<>>, sender |-> <<"h", "@", "k">>, content |-> <<"g">>,
        sender_name |-> <<"a">>] >>

EmailIds == 1..Len(Inbox)

\* what a field of a message can be: a non-empty str, "", None, or not given
FieldKinds == <<"str", "empty", "None", "missing">>

FieldValue(field, kind) ==
    IF kind = "empty" THEN <<>>
    ELSE IF kind = "None" THEN None
    ELSE IF kind = "missing" THEN Missing
    ELSE IF field = "subject" THEN <<"a">>
    ELSE IF field = "sender" THEN <<"k", "@", "a">>
    ELSE IF field = "content" THEN <<"g">>
    ELSE <<"h">>

\* one message for every combination of kinds of the four fields
FieldMessages ==
    LET n == Len(FieldKinds)
        Kind(k, place) == FieldKinds[(((k - 1) \div place) % n) + 1]
    IN  [k \in 1..(n * n * n * n) |->
            [subject |-> FieldValue("subject", Kind(k, n * n * n)),
             sender |-> FieldValue("sender", Kind(k, n * n)),
             content |-> FieldValue("content", Kind(k, n)),
             sender_name |-> FieldValue("sender_name", Kind(k, 1))]]

\* characters the provider gives no weight: padding of a long body
Filler(n) == [i \in 1..n |-> "x"]

\* a body of n characters that starts with "g" and ends with `last`
LongContent(last, n) == <<"g">> \o Filler(n - 2) \o <<last>>

\* messages around the truncation of content (line 198) and the choice of the
\* From line (lines 192-195)
TextMessages ==
    << [subject |-> <<"a">>, sender |-> <<"k", "@", "a">>,
        content |-> LongContent("a", CONTENT_LIMIT + 1), sender_name |-> <<"h">>],
       [subject |-> <<"a">>, sender |-> <<"k", "@", "a">>,
        content |-> LongContent("h", CONTENT_LIMIT + 1), sender_name |-> <<"h">>],
       [subject |-> <<"a">>, sender |-> <<"k", "@", "a">>,
        content |-> LongContent("a", CONTENT_LIMIT), sender_name |-> <<"h">>],
       [subject |-> <<"a">>, sender |-> <<"k", "@", "a">>,
        content |-> LongContent("h", CONTENT_LIMIT), sender_name |-> <<"h">>],
       [subject |-> <<"a">>, sender |-> <<"a", "@", "k">>,
        content |-> LongContent("a", CONTENT_LIMIT + 1), sender_name |-> <<"h">>],
       [subject |-> <<"a">>, sender |-> <<"k", "@", "a", "@", "h">>,
        content |-> <<"g">>, sender_name |-> <<>>],
       [subject |-> <<"a">>, sender |-> <<"k", "a">>,
        content |-> <<"g">>, sender_name |-> <<>>],
       [subject |-> <<"a">>, sender |-> <<"@", "a">>,
        content |-> <<"g">>, sender_name |-> <<>>],
       [subject |-> <<>>, sender |-> <<>>,
        content |-> <<"g", "\n", "a">>, sender_name |-> <<>>],
       [subject |-> <<"a">>, sender |-> <<"a", "@", "k">>,
        content |-> <<"g">>, sender_name |-> <<>>] >>

\* all messages, by id
Messages == Inbox \o FieldMessages \o TextMessages

FieldIds == (Len(Inbox) + 1)..(Len(Inbox) + Len(FieldMessages))

TextIds == (Len(Inbox) + Len(FieldMessages) + 1)..Len(Messages)

\* classify(subject, sender, content, sender_name=""): the call binds when the
\* three required arguments are passed
Binds(name, message) ==
    name = "classify" =>
        /\ message.subject # Missing /\ message.sender # Missing /\ message.content # Missing

\* the default "" of sender_name (line 124) and of email.get(key, "") (lines 231-234)
OrDefault(value) == IF value = Missing THEN <<>> ELSE value

BatchesOf(ids, maxlen) == UNION {[1..n -> ids] : n \in 0..maxlen}

\* inputs of a sequential run
Batches == BatchesOf(EmailIds, MaxBatch)

\* inputs of a concurrent run: what a caller classifies does not change how
\* the callers interleave on the registry
ConcurrentIds == {1}

ConcurrentBatches == BatchesOf({2}, 1)

EmailText(id) ==
    prepare_email_text(OrDefault(Messages[id].subject), OrDefault(Messages[id].sender),
                       OrDefault(Messages[id].content), OrDefault(Messages[id].sender_name))

\* initialize_category_embeddings, lines 106-112
category_names == CategoryNames

category_texts ==
    [i \in 1..Len(CategoryNames) |->
        Join([j \in 1..Len(CATEGORY_DESCRIPTIONS[CategoryNames[i]]) |->
                 <<CATEGORY_DESCRIPTIONS[CategoryNames[i]][j]>>], <<" ">>)]

\* self._category_embeddings[category] = embedding on a dict kept in insertion order
DictSet(dict, key, value) ==
    IF \E i \in 1..Len(dict) : dict[i].cat = key
    THEN [i \in 1..Len(dict) |-> IF dict[i].cat = key THEN [cat |-> key, vec |-> value] ELSE dict[i]]
    ELSE Append(dict, [cat |-> key, vec |-> value])

-----------------------------------------------------------------------------
(* State machine: callers run classify / classify_batch, or call            *)
(* initialize_category_embeddings directly, on one shared                   *)
(* SemanticEmailClassifier, one statement with a shared access at a time.   *)
(* A provider call is logged as [api, what, failed]; its texts are          *)
(* category_texts or the email_texts of the call.  The scoring of a call is *)
(* one step: it reads the registry, whose keys are never removed and whose  *)
(* values a deterministic provider rewrites unchanged.                      *)

RECURSIVE SumTo(_, _)
SumTo(f, n) == IF n = 0 THEN 0 ELSE f[n] + SumTo(f, n - 1)

\* calls started so far, by all callers
TotalCalls == SumTo(ncalls, NumCallers)

NoReturn == [status |-> "none"]
Returned(value) == [status |-> "ok", value |-> value]
Raised(error) == [status |-> "raised", error |-> error]

\* the users with a session (users.id)
UserIds == {1, 2}

NoRun == [status |-> "none"]

NoResponse == [status |-> "none"]

\* the application at process start: no classifier object yet (line 289), an
\* empty table, an empty rate_limit_store (routes.py line 39)
AppInit ==
    /\ classifier_instance = None
    /\ instances = 0
    /\ ready_instances = {}
    /\ gpc = [t \in Callers |-> "idle"]
    /\ got = [t \in Callers |-> None]
    /\ gcalls = [t \in Callers |-> 0]
    /\ emails_table = <<>>
    /\ sync_run = NoRun
    /\ rate_limit_store = [u \in UserIds |-> <<>>]
    /\ clock = 0
    /\ sends = [u \in UserIds |-> <<>>]
    /\ response = NoResponse

Init ==
    /\ AppInit
    /\ model \in Models
    /\ initialized = FALSE
    /\ category_embeddings = <<>>
    /\ pc = [t \in Callers |-> "idle"]
    /\ op = [t \in Callers |-> [name |-> "none", emails |-> <<>>, saw_initialized |-> FALSE]]
    /\ embeddings = [t \in Callers |-> <<>>]
    /\ init_i = [t \in Callers |-> 0]
    /\ all_embeddings = [t \in Callers |-> <<>>]
    /\ ret = [t \in Callers |-> NoReturn]
    /\ made = [t \in Callers |-> <<>>]
    /\ ncalls = [t \in Callers |-> 0]
    /\ init_embed_calls = 0
    /\ init_embed_failed = 0
    /\ init_writers = {}

\* Enter without the early return of classify_batch on an empty list
Enter_NoEarlyReturn(t, name, emails, budget) ==
    /\ pc[t] = "idle"
    /\ TotalCalls < budget
    /\ ncalls' = [ncalls EXCEPT ![t] = @ + 1]
    /\ op' = [op EXCEPT ![t] = [name |-> name, emails |-> emails,
                                 saw_initialized |-> initialized]]
    /\ made' = [made EXCEPT ![t] = <<>>]
    /\ ret' = [ret EXCEPT ![t] = NoReturn]
    /\ pc' = [pc EXCEPT ![t] =
                 IF name = "initialize_category_embeddings" THEN "init_check"
                 ELSE IF initialized THEN "embed" ELSE "init_check"]
    /\ UNCHANGED <<appVars, model, initialized, category_embeddings, embeddings, init_i,
                   all_embeddings, init_embed_calls, init_embed_failed, init_writers>>

\* a call up to its first shared access: `if not emails: return []` (batch),
\* then `if not self._initialized` (lines 138 and 225); a direct call of
\* initialize_category_embeddings reads the flag at line 101 first.
\* saw_initialized is the value of the flag that the call last read.
Enter(t, name, emails, budget) ==
    /\ pc[t] = "idle"
    /\ TotalCalls < budget
    /\ ncalls' = [ncalls EXCEPT ![t] = @ + 1]
    /\ made' = [made EXCEPT ![t] = <<>>]
    /\ IF name = "classify_batch" /\ Len(emails) = 0
       THEN /\ op' = [op EXCEPT ![t] = [name |-> name, emails |-> emails,
                                        saw_initialized |-> FALSE]]
            /\ ret' = [ret EXCEPT ![t] = Returned(<<>>)]
            /\ pc' = pc
       ELSE IF name = "classify" /\ ~Binds(name, Messages[emails[1]])
       THEN /\ op' = [op EXCEPT ![t] = [name |-> name, emails |-> emails,
                                        saw_initialized |-> FALSE]]
            /\ ret' = [ret EXCEPT ![t] = Raised("TypeError")]
            /\ pc' = pc
       ELSE IF name = "initialize_category_embeddings"
       THEN /\ op' = [op EXCEPT ![t] = [name |-> name, emails |-> emails,
                                        saw_initialized |-> FALSE]]
            /\ ret' = [ret EXCEPT ![t] = NoReturn]
            /\ pc' = [pc EXCEPT ![t] = "init_check"]
       ELSE /\ op' = [op EXCEPT ![t] = [name |-> name, emails |-> emails,
                                        saw_initialized |-> initialized]]
            /\ ret' = [ret EXCEPT ![t] = NoReturn]
            /\ pc' = [pc EXCEPT ![t] = IF initialized THEN "embed" ELSE "init_check"]
    /\ UNCHANGED <<appVars, model, initialized, category_embeddings, embeddings, init_i,
                   all_embeddings, init_embed_calls, init_writers,
                   init_embed_failed>>

\* classify(subject, sender, content, sender_name), lines 137-139
classify(t, ids, budget) ==
    \E id \in ids : Enter(t, "classify", <<id>>, budget)

\* classify_batch(emails), lines 221-226
classify_batch(t, batches, budget) ==
    \E emails \in batches : Enter(t, "classify_batch", emails, budget)

\* a direct call of the method, as a client or a warm-up at start would make
initialize_category_embeddings(t, budget) ==
    Enter(t, "initialize_category_embeddings", <<>>, budget)

\* where a call goes on when initialize_category_embeddings returns: back
\* into classify / classify_batch at line 142 / 229, or to the direct caller
AfterInit(t) ==
    IF op[t].name = "initialize_category_embeddings" THEN "idle" ELSE "embed"

\* InitCheck without the guard of lines 101-102
InitCheck_NoGuard(t) ==
    /\ pc[t] = "init_check"
    /\ op' = [op EXCEPT ![t].saw_initialized = initialized]
    /\ pc' = [pc EXCEPT ![t] = "init_embed"]
    /\ UNCHANGED <<appVars, model, initialized, category_embeddings, embeddings, init_i,
                   all_embeddings, ret, made, ncalls, init_embed_calls, init_writers,
                   init_embed_failed>>

\* initialize_category_embeddings, lines 101-102
InitCheck(t) ==
    /\ pc[t] = "init_check"
    /\ op' = [op EXCEPT ![t].saw_initialized = initialized]
    /\ IF initialized
       THEN /\ pc' = [pc EXCEPT ![t] = AfterInit(t)]
            /\ ret' = [ret EXCEPT ![t] = IF AfterInit(t) = "idle" THEN Returned(None) ELSE @]
       ELSE /\ pc' = [pc EXCEPT ![t] = "init_embed"]
            /\ ret' = ret
    /\ UNCHANGED <<appVars, model, initialized, category_embeddings, embeddings, init_i,
                   all_embeddings, made, ncalls, init_embed_calls, init_writers,
                   init_embed_failed>>

\* InitEmbed that sets _initialized before the vectors are stored
InitEmbed_FlagFirst(t) ==
    /\ pc[t] = "init_embed"
    /\ embeddings' = [embeddings EXCEPT ![t] = get_embeddings_batch(model, category_texts)]
    /\ made' = [made EXCEPT ![t] =
                   Append(@, [api |-> "get_embeddings_batch", what |-> "category_texts",
                              failed |-> FALSE])]
    /\ init_embed_calls' = init_embed_calls + 1
    /\ init_i' = [init_i EXCEPT ![t] = 1]
    /\ initialized' = TRUE
    /\ pc' = [pc EXCEPT ![t] = "init_write"]
    /\ UNCHANGED <<appVars, model, category_embeddings, op, all_embeddings, ret,
                   ncalls, init_writers, init_embed_failed>>

\* initialize_category_embeddings, lines 106-115: the provider answers
InitEmbed(t) ==
    /\ pc[t] = "init_embed"
    /\ embeddings' = [embeddings EXCEPT ![t] = get_embeddings_batch(model, category_texts)]
    /\ made' = [made EXCEPT ![t] =
                   Append(@, [api |-> "get_embeddings_batch", what |-> "category_texts",
                              failed |-> FALSE])]
    /\ init_embed_calls' = init_embed_calls + 1
    /\ init_i' = [init_i EXCEPT ![t] = 1]
    /\ pc' = [pc EXCEPT ![t] = "init_write"]
    /\ UNCHANGED <<appVars, model, initialized, category_embeddings, op, all_embeddings, ret,
                   ncalls, init_writers,
                   init_embed_failed>>

\* InitEmbedFails that marks the registry initialized on the way out
InitEmbedFails_FlagSet(t) ==
    /\ pc[t] = "init_embed"
    /\ made' = [made EXCEPT ![t] =
                   Append(@, [api |-> "get_embeddings_batch", what |-> "category_texts",
                              failed |-> TRUE])]
    /\ init_embed_calls' = init_embed_calls + 1
    /\ init_embed_failed' = init_embed_failed + 1
    /\ initialized' = TRUE
    /\ ret' = [ret EXCEPT ![t] = Raised("ProviderError")]
    /\ pc' = [pc EXCEPT ![t] = "idle"]
    /\ UNCHANGED <<appVars, model, category_embeddings, op, embeddings, init_i,
                   all_embeddings, ncalls, init_writers>>

\* initialize_category_embeddings, line 115: the provider raises
InitEmbedFails(t) ==
    /\ pc[t] = "init_embed"
    /\ made' = [made EXCEPT ![t] =
                   Append(@, [api |-> "get_embeddings_batch", what |-> "category_texts",
                              failed |-> TRUE])]
    /\ init_embed_calls' = init_embed_calls + 1
    /\ init_embed_failed' = init_embed_failed + 1
    /\ ret' = [ret EXCEPT ![t] = Raised("ProviderError")]
    /\ pc' = [pc EXCEPT ![t] = "idle"]
    /\ UNCHANGED <<appVars, model, initialized, category_embeddings, op, embeddings, init_i,
                   all_embeddings, ncalls, init_writers>>

\* InitWrite that pairs the categories with the vectors from the other end
InitWrite_Reversed(t) ==
    /\ pc[t] = "init_write"
    /\ IF init_i[t] <= Min(Len(category_names), Len(embeddings[t]))
       THEN /\ category_embeddings' =
                  DictSet(category_embeddings, category_names[init_i[t]],
                          embeddings[t][Len(embeddings[t]) + 1 - init_i[t]])
            /\ init_writers' = init_writers \cup {t}
            /\ init_i' = [init_i EXCEPT ![t] = @ + 1]
            /\ pc' = pc
       ELSE /\ pc' = [pc EXCEPT ![t] = "init_flag"]
            /\ UNCHANGED <<category_embeddings, init_writers, init_i>>
    /\ UNCHANGED <<appVars, model, initialized, op, embeddings, all_embeddings, ret, made, ncalls,
                   init_embed_calls,
                   init_embed_failed>>

\* initialize_category_embeddings, lines 117-118: one turn of the zip loop
InitWrite(t) ==
    /\ pc[t] = "init_write"
    /\ IF init_i[t] <= Min(Len(category_names), Len(embeddings[t]))
       THEN /\ category_embeddings' =
                  DictSet(category_embeddings, category_names[init_i[t]], embeddings[t][init_i[t]])
            /\ init_writers' = init_writers \cup {t}
            /\ init_i' = [init_i EXCEPT ![t] = @ + 1]
            /\ pc' = pc
       ELSE /\ pc' = [pc EXCEPT ![t] = "init_flag"]
            /\ UNCHANGED <<category_embeddings, init_writers, init_i>>
    /\ UNCHANGED <<appVars, model, initialized, op, embeddings, all_embeddings, ret, made, ncalls,
                   init_embed_calls,
                   init_embed_failed>>

\* initialize_category_embeddings, line 121, and its return
InitFlag(t) ==
    /\ pc[t] = "init_flag"
    /\ initialized' = TRUE
    /\ embeddings' = [embeddings EXCEPT ![t] = <<>>]
    /\ init_i' = [init_i EXCEPT ![t] = 0]
    /\ pc' = [pc EXCEPT ![t] = AfterInit(t)]
    /\ ret' = [ret EXCEPT ![t] = IF AfterInit(t) = "idle" THEN Returned(None) ELSE @]
    /\ UNCHANGED <<appVars, model, category_embeddings, op, all_embeddings, made, ncalls,
                   init_embed_calls, init_writers,
                   init_embed_failed>>

\* the texts of a call: lines 142 and 229-237
email_texts(emails) == [i \in 1..Len(emails) |-> EmailText(emails[i])]

\* the provider call of line 145 (classify) or 242 (classify_batch)
MessageCall(name, failed) ==
    [api |-> IF name = "classify" THEN "get_embedding" ELSE "get_embeddings_batch",
     what |-> "email_texts", failed |-> failed]

\* MessageEmbeddings with a shortcut for degenerate input: an empty composite
\* text is not sent to the provider and gets the zero vector
MessageEmbeddings_EmptyIsZero(m, name, emails) ==
    IF name = "classify"
    THEN <<IF email_texts(emails)[1] = <<>> THEN ZeroVec
           ELSE get_embedding(m, email_texts(emails)[1])>>
    ELSE [i \in 1..Len(emails) |->
             IF email_texts(emails)[i] = <<>> THEN ZeroVec
             ELSE get_embeddings_batch(m, email_texts(emails))[i]]

\* what the provider returns to line 145 or 242
MessageEmbeddings(m, name, emails) ==
    IF name = "classify"
    THEN <<get_embedding(m, email_texts(emails)[1])>>
    ELSE get_embeddings_batch(m, email_texts(emails))

\* Embed that asks the provider for one message at a time
Embed_PerMessage(t) ==
    /\ pc[t] = "embed"
    /\ all_embeddings' = [all_embeddings EXCEPT ![t] =
                             [i \in 1..Len(op[t].emails) |->
                                 get_embedding(model, email_texts(op[t].emails)[i])]]
    /\ made' = [made EXCEPT ![t] =
                   @ \o [i \in 1..Len(op[t].emails) |->
                            [api |-> "get_embedding", what |-> "email_texts", failed |-> FALSE]]]
    /\ pc' = [pc EXCEPT ![t] = "score"]
    /\ UNCHANGED <<appVars, model, initialized, category_embeddings, op, embeddings, init_i, ret,
                   ncalls, init_embed_calls, init_writers,
                   init_embed_failed>>

\* Embed that keeps the embeddings in an attribute of the classifier, which
\* the callers share, instead of a local
Embed_SharedBuffer(t) ==
    /\ pc[t] = "embed"
    /\ all_embeddings' = [u \in Callers |->
                             MessageEmbeddings(model, op[t].name, op[t].emails)]
    /\ made' = [made EXCEPT ![t] = Append(@, MessageCall(op[t].name, FALSE))]
    /\ pc' = [pc EXCEPT ![t] = "score"]
    /\ UNCHANGED <<appVars, model, initialized, category_embeddings, op, embeddings, init_i, ret,
                   ncalls, init_embed_calls, init_writers,
                   init_embed_failed>>

\* classify, lines 142-145, and classify_batch, lines 229-242: the provider answers
Embed(t) ==
    /\ pc[t] = "embed"
    /\ all_embeddings' = [all_embeddings EXCEPT ![t] =
                             MessageEmbeddings(model, op[t].name, op[t].emails)]
    /\ made' = [made EXCEPT ![t] = Append(@, MessageCall(op[t].name, FALSE))]
    /\ pc' = [pc EXCEPT ![t] = "score"]
    /\ UNCHANGED <<appVars, model, initialized, category_embeddings, op, embeddings, init_i, ret,
                   ncalls, init_embed_calls, init_writers,
                   init_embed_failed>>

\* EmbedFails that logs the failure and returns the default classification
EmbedFails_Swallowed(t) ==
    /\ pc[t] = "embed"
    /\ made' = [made EXCEPT ![t] = Append(@, MessageCall(op[t].name, TRUE))]
    /\ ret' = [ret EXCEPT ![t] =
          LET default == [category |-> "primary", confidence |-> PRIMARY_CONFIDENCE,
                          labels |-> SetToBag({"primary"}), reason |-> <<>>]
          IN  Returned(IF op[t].name = "classify" THEN default
                       ELSE [i \in 1..Len(op[t].emails) |-> default])]
    /\ pc' = [pc EXCEPT ![t] = "idle"]
    /\ UNCHANGED <<appVars, model, initialized, category_embeddings, op, embeddings, init_i,
                   all_embeddings, ncalls, init_embed_calls, init_writers,
                   init_embed_failed>>

\* EmbedFails that drops the category vectors when the provider fails, for
\* the next call to build them again
EmbedFails_ResetsRegistry(t) ==
    /\ pc[t] = "embed"
    /\ made' = [made EXCEPT ![t] = Append(@, MessageCall(op[t].name, TRUE))]
    /\ ret' = [ret EXCEPT ![t] = Raised("ProviderError")]
    /\ pc' = [pc EXCEPT ![t] = "idle"]
    /\ initialized' = FALSE
    /\ category_embeddings' = <<>>
    /\ UNCHANGED <<appVars, model, op, embeddings, init_i,
                   all_embeddings, ncalls, init_embed_calls, init_writers,
                   init_embed_failed>>

\* EmbedFails that asks the provider again after a failure
EmbedFails_Retried(t) ==
    /\ pc[t] = "embed"
    /\ Len(made[t]) < 3
    /\ made' = [made EXCEPT ![t] = Append(@, MessageCall(op[t].name, TRUE))]
    /\ UNCHANGED <<appVars, model, initialized, category_embeddings, pc, op, embeddings, init_i,
                   all_embeddings, ret, ncalls, init_embed_calls, init_writers,
                   init_embed_failed>>

\* lines 145 and 242: the provider raises
EmbedFails(t) ==
    /\ pc[t] = "embed"
    /\ made' = [made EXCEPT ![t] = Append(@, MessageCall(op[t].name, TRUE))]
    /\ ret' = [ret EXCEPT ![t] = Raised("ProviderError")]
    /\ pc' = [pc EXCEPT ![t] = "idle"]
    /\ UNCHANGED <<appVars, model, initialized, category_embeddings, op, embeddings, init_i,
                   all_embeddings, ncalls, init_embed_calls, init_writers,
                   init_embed_failed>>

\* classify_batch, lines 247-285: results for all_embeddings, in order
BatchResults(embs, registry) ==
    [i \in 1..Len(embs) |-> ClassifyBatchEmbedding(embs[i], registry)]

\* the value of a call, or the exception of its scoring
Outcome(name, embs, registry) ==
    IF name = "classify"
    THEN LET r == ClassifyEmbedding(embs[1], registry)
         IN  IF r = ValueError THEN Raised("ValueError") ELSE Returned(r)
    ELSE LET rs == BatchResults(embs, registry)
         IN  IF \E i \in 1..Len(rs) : rs[i] = ValueError
             THEN Raised("ValueError") ELSE Returned(rs)

\* Score that also keeps the embedding of the message as the vector of the
\* category it selected (a classifier that adapts its categories as it goes)
Score_Adaptive(t) ==
    /\ pc[t] = "score"
    /\ ret' = [ret EXCEPT ![t] = Outcome(op[t].name, all_embeddings[t], category_embeddings)]
    /\ category_embeddings' =
          IF ret'[t].status = "ok" /\ op[t].name = "classify"
          THEN DictSet(category_embeddings, ret'[t].value.category, all_embeddings[t][1])
          ELSE category_embeddings
    /\ all_embeddings' = [all_embeddings EXCEPT ![t] = <<>>]
    /\ pc' = [pc EXCEPT ![t] = "idle"]
    /\ UNCHANGED <<appVars, model, initialized, op, embeddings, init_i,
                   made, ncalls, init_embed_calls, init_writers,
                   init_embed_failed>>

\* classify, lines 147-181, and classify_batch, lines 247-285, and the return
Score(t) ==
    /\ pc[t] = "score"
    /\ ret' = [ret EXCEPT ![t] = Outcome(op[t].name, all_embeddings[t], category_embeddings)]
    /\ all_embeddings' = [all_embeddings EXCEPT ![t] = <<>>]
    /\ pc' = [pc EXCEPT ![t] = "idle"]
    /\ UNCHANGED <<appVars, model, initialized, category_embeddings, op, embeddings, init_i,
                   made, ncalls, init_embed_calls, init_writers,
                   init_embed_failed>>

\* the statements of caller t past the entry of a call
Step(t) ==
    \/ InitCheck(t)
    \/ InitEmbed(t)
    \/ InitEmbedFails(t)
    \/ InitWrite(t)
    \/ InitFlag(t)
    \/ Embed(t)
    \/ EmbedFails(t)
    \/ Score(t)

\* callers on threads, interleaved statement by statement
Next ==
    \E t \in Callers :
        \/ classify(t, ConcurrentIds, MaxCalls)
        \/ classify_batch(t, ConcurrentBatches, MaxCalls)
        \/ initialize_category_embeddings(t, MaxCalls)
        \/ Step(t)

Spec == Init /\ [][Next]_vars

\* one caller, one call after the other
SeqNext ==
    \/ classify(1, EmailIds, MaxSeqCalls)
    \/ classify_batch(1, Batches, MaxSeqCalls)
    \/ initialize_category_embeddings(1, MaxSeqCalls)
    \/ Step(1)

SeqSpec == Init /\ [][SeqNext]_vars

\* a run over the field combinations: one message and one of the two entry
\* points, drawn at the start, and the caller's calls on it
FieldInit ==
    /\ AppInit
    /\ model \in Models
    /\ initialized = FALSE
    /\ category_embeddings = <<>>
    /\ pc = [t \in Callers |-> "idle"]
    /\ \E name \in {"classify", "classify_batch"}, id \in FieldIds :
          op = [t \in Callers |->
                   IF t = 1 THEN [name |-> name, emails |-> <<id>>, saw_initialized |-> FALSE]
                   ELSE [name |-> "none", emails |-> <<>>, saw_initialized |-> FALSE]]
    /\ embeddings = [t \in Callers |-> <<>>]
    /\ init_i = [t \in Callers |-> 0]
    /\ all_embeddings = [t \in Callers |-> <<>>]
    /\ ret = [t \in Callers |-> NoReturn]
    /\ made = [t \in Callers |-> <<>>]
    /\ ncalls = [t \in Callers |-> 0]
    /\ init_embed_calls = 0
    /\ init_embed_failed = 0
    /\ init_writers = {}

\* the same run over the messages around truncation and the From line
TextInit ==
    /\ AppInit
    /\ model \in Models
    /\ initialized = FALSE
    /\ category_embeddings = <<>>
    /\ pc = [t \in Callers |-> "idle"]
    /\ \E name \in {"classify", "classify_batch"}, id \in TextIds :
          op = [t \in Callers |->
                   IF t = 1 THEN [name |-> name, emails |-> <<id>>, saw_initialized |-> FALSE]
                   ELSE [name |-> "none", emails |-> <<>>, saw_initialized |-> FALSE]]
    /\ embeddings = [t \in Callers |-> <<>>]
    /\ init_i = [t \in Callers |-> 0]
    /\ all_embeddings = [t \in Callers |-> <<>>]
    /\ ret = [t \in Callers |-> NoReturn]
    /\ made = [t \in Callers |-> <<>>]
    /\ ncalls = [t \in Callers |-> 0]
    /\ init_embed_calls = 0
    /\ init_embed_failed = 0
    /\ init_writers = {}

\* the caller calls its entry point on its message
FieldCall(t) == Enter(t, op[t].name, op[t].emails, MaxFieldCalls)

FieldNext ==
    \/ FieldCall(1)
    \/ Step(1)

FieldSpec == FieldInit /\ [][FieldNext]_vars

TextSpec == TextInit /\ [][FieldNext]_vars

-----------------------------------------------------------------------------
(* get_semantic_classifier (semantic_classifier.py lines 288-297) and the    *)
(* callers that take the classifier from it: classify_email, and the        *)
(* handlers of routes.py through get_classifier.  As for the registry, the  *)
(* callers are threads, interleaved statement by statement.                 *)

MaxGets == 2           \* calls of get_semantic_classifier by one caller

\* the process at start; which model the provider has loaded makes no
\* difference to the application around the classifier
ServerInit == Init /\ model = "spread"

\* the n-th SemanticEmailClassifier constructed in the process
Object(n) == <<"SemanticEmailClassifier", n>>

\* line 294: `if _classifier_instance is None`
GetCheck(t) ==
    /\ gpc[t] = "idle"
    /\ gcalls[t] < MaxGets
    /\ gcalls' = [gcalls EXCEPT ![t] = @ + 1]
    /\ got' = [got EXCEPT ![t] = None]
    /\ gpc' = [gpc EXCEPT ![t] = IF classifier_instance = None THEN "create" ELSE "return"]
    /\ UNCHANGED <<classifierVars, syncVars, sendVars, classifier_instance, instances,
                   ready_instances>>

\* line 295: `_classifier_instance = SemanticEmailClassifier()`
GetCreate(t) ==
    /\ gpc[t] = "create"
    /\ instances' = instances + 1
    /\ classifier_instance' = Object(instances + 1)
    /\ gpc' = [gpc EXCEPT ![t] = "return"]
    /\ UNCHANGED <<classifierVars, syncVars, sendVars, ready_instances, got, gcalls>>

\* line 296: `return _classifier_instance`, the global as it is now
GetReturn(t) ==
    /\ gpc[t] = "return"
    /\ got' = [got EXCEPT ![t] = classifier_instance]
    /\ gpc' = [gpc EXCEPT ![t] = "use"]
    /\ UNCHANGED <<classifierVars, syncVars, sendVars, classifier_instance, instances,
                   ready_instances, gcalls>>

\* the caller classifies with the object it got (lines 303-304; routes.py
\* lines 725-726, 1083, 2028): the registry of that object is initialized if
\* it was not
UseClassifier(t) ==
    /\ gpc[t] = "use"
    /\ ready_instances' = ready_instances \cup {got[t]}
    /\ gpc' = [gpc EXCEPT ![t] = "idle"]
    /\ UNCHANGED <<classifierVars, syncVars, sendVars, classifier_instance, instances,
                   got, gcalls>>

InstanceNext ==
    \E t \in Callers :
        \/ GetCheck(t)
        \/ GetCreate(t)
        \/ GetReturn(t)
        \/ UseClassifier(t)

InstanceSpec == ServerInit /\ [][InstanceNext]_vars

-----------------------------------------------------------------------------
(* sync_emails_from_gmail (routes.py lines 688-768).  The handler is a      *)
(* coroutine with no await inside: a run is one step, and the runs of one   *)
(* process follow each other in any order.  A fetched message is its        *)
(* gmail_id; a row of the table is [user_id, gmail_id] (models/email.py     *)
(* line 22: gmail_id is indexed, not unique).                               *)

MaxFetch == 2          \* messages in the list one fetch returns
MaxRows == 4           \* rows the table holds

GmailIds == {"m1", "m2"}

\* what gmail_service.fetch_emails can return: any list, also an empty one
\* (no service, or an error, gmail_service.py lines 157-158 and 189-191)
FetchedLists == UNION {[1..n -> GmailIds] : n \in 0..MaxFetch}

Row(user_id, gmail_id) == [user_id |-> user_id, gmail_id |-> gmail_id]

\* lines 698-701: db.query(Email).filter(gmail_id == .., user_id == ..).first()
Existing(table, user_id, gmail_id) ==
    \E i \in 1..Len(table) : table[i] = Row(user_id, gmail_id)

\* lines 696-704: the fetched messages with no row in the table
NewEmails(table, user_id, emails_data) ==
    SelectSeq(emails_data, LAMBDA g : ~Existing(table, user_id, g))

\* one run: fetch, filter, `if not new_emails: return 0`, classify_batch
\* (line 726, which raises when the provider fails), one row per new message,
\* commit, return synced_count
sync_emails_from_gmail(user_id, emails_data, provider_fails) ==
    LET new_emails == NewEmails(emails_table, user_id, emails_data)
    IN  /\ Len(emails_table) + Len(new_emails) <= MaxRows
        /\ IF Len(new_emails) = 0
           THEN /\ sync_run' = [status |-> "ok", user_id |-> user_id, fetched |-> emails_data,
                                classified |-> <<>>, ret |-> 0]
                /\ emails_table' = emails_table
           ELSE IF provider_fails
           THEN /\ sync_run' = [status |-> "raised", user_id |-> user_id,
                                fetched |-> emails_data, classified |-> new_emails, ret |-> 0]
                /\ emails_table' = emails_table
           ELSE /\ sync_run' = [status |-> "ok", user_id |-> user_id, fetched |-> emails_data,
                                classified |-> new_emails, ret |-> Len(new_emails)]
                /\ emails_table' = emails_table \o
                                      [i \in 1..Len(new_emails) |-> Row(user_id, new_emails[i])]
        /\ UNCHANGED <<classifierVars, instanceVars, sendVars>>

SyncNext ==
    \E user_id \in UserIds, emails_data \in FetchedLists, provider_fails \in BOOLEAN :
        sync_emails_from_gmail(user_id, emails_data, provider_fails)

SyncSpec == ServerInit /\ [][SyncNext]_vars

-----------------------------------------------------------------------------
(* send_email (routes.py lines 1034-1237).  The handler is a coroutine with *)
(* no await inside: a request is one step.  Time is in seconds; the         *)
(* timestamp a successful send records is `now`, the time of line 1051.     *)

RATE_LIMIT == 10       \* line 1058
WINDOW == 60           \* line 1055

MaxClock == 60         \* the time the clock runs up to
MaxSends == 11         \* successful sends, of all users together

\* by how much the clock is advanced
TickSteps == {WINDOW - 1, WINDOW}

\* what a request is and meets on its way, one case per exit of the handler
Scenarios ==
    {"unauthenticated", "disabled",
     "local_reply_missing", "local_classify_raises", "local_db_fails", "local_ok",
     "recipient_unregistered", "provider_other", "gmail_reply_missing",
     "gmail_send_raises", "gmail_no_message_id", "gmail_ok", "gmail_ok_record_lost"}

\* the status each case ends with when the request is not rate-limited
StatusOf(scenario) ==
    CASE scenario = "unauthenticated" -> 401
      [] scenario \in {"disabled", "provider_other"} -> 403
      [] scenario \in {"local_reply_missing", "gmail_reply_missing"} -> 404
      [] scenario = "recipient_unregistered" -> 400
      [] scenario \in {"local_classify_raises", "local_db_fails",
                       "gmail_send_raises", "gmail_no_message_id"} -> 500
      [] OTHER -> 200

\* the case reaches get_classifier().classify (line 1083)
Classifies(scenario) == scenario \in {"local_classify_raises", "local_db_fails", "local_ok"}

\* rows the request commits: recipient and sender copy (line 1147), or the
\* sent record of a Gmail send (line 1220)
RowsStored(scenario) ==
    IF scenario = "local_ok" THEN 2 ELSE IF scenario = "gmail_ok" THEN 1 ELSE 0

\* gmail_service.send_email returned a message id (line 1189)
SentByGmail(scenario) == scenario \in {"gmail_ok", "gmail_ok_record_lost"}

\* lines 1053-1056: the timestamps of the user younger than the window
Recent(timestamps, now) == SelectSeq(timestamps, LAMBDA t : now - t < WINDOW)

RECURSIVE TotalSends(_)
TotalSends(S) ==
    IF S = {} THEN 0
    ELSE LET u == CHOOSE x \in S : TRUE IN Len(sends[u]) + TotalSends(S \ {u})

Response(user, status, scenario) ==
    [user |-> user, status |-> status,
     active |-> scenario \notin {"unauthenticated", "disabled"},
     classified |-> status # 429 /\ Classifies(scenario),
     stored |-> IF status = 429 THEN 0 ELSE RowsStored(scenario),
     sent |-> status # 429 /\ SentByGmail(scenario)]

\* send_email that records the timestamp at the rate-limit check, before the
\* send is attempted
send_email_RecordsAttempt(user, scenario) ==
    LET now == clock
        recent == Recent(rate_limit_store[user], now)
    IN  /\ (StatusOf(scenario) = 200 /\ Len(recent) < RATE_LIMIT) =>
              TotalSends(UserIds) < MaxSends
        /\ IF scenario \in {"unauthenticated", "disabled"}
           THEN /\ response' = Response(user, StatusOf(scenario), scenario)
                /\ UNCHANGED <<rate_limit_store, sends>>
           ELSE IF Len(recent) >= RATE_LIMIT
           THEN /\ rate_limit_store' = [rate_limit_store EXCEPT ![user] = recent]
                /\ response' = Response(user, 429, scenario)
                /\ sends' = sends
           ELSE /\ rate_limit_store' = [rate_limit_store EXCEPT ![user] = Append(recent, now)]
                /\ sends' = IF StatusOf(scenario) = 200
                            THEN [sends EXCEPT ![user] = Append(@, now)] ELSE sends
                /\ response' = Response(user, StatusOf(scenario), scenario)
        /\ UNCHANGED <<classifierVars, instanceVars, syncVars, clock>>

\* one request: authentication (lines 1042-1048), the rate limit (lines
\* 1050-1062), then the local path (lines 1069-1161) or the Gmail path (lines
\* 1163-1237); a successful send appends `now` (lines 1152 and 1230)
send_email(user, scenario) ==
    LET now == clock
        recent == Recent(rate_limit_store[user], now)
    IN  /\ (StatusOf(scenario) = 200 /\ Len(recent) < RATE_LIMIT) =>
              TotalSends(UserIds) < MaxSends
        /\ IF scenario \in {"unauthenticated", "disabled"}
           THEN /\ response' = Response(user, StatusOf(scenario), scenario)
                /\ UNCHANGED <<rate_limit_store, sends>>
           ELSE IF Len(recent) >= RATE_LIMIT
           THEN /\ rate_limit_store' = [rate_limit_store EXCEPT ![user] = recent]
                /\ response' = Response(user, 429, scenario)
                /\ sends' = sends
           ELSE IF StatusOf(scenario) = 200
           THEN /\ rate_limit_store' = [rate_limit_store EXCEPT ![user] = Append(recent, now)]
                /\ sends' = [sends EXCEPT ![user] = Append(@, now)]
                /\ response' = Response(user, 200, scenario)
           ELSE /\ rate_limit_store' = [rate_limit_store EXCEPT ![user] = recent]
                /\ sends' = sends
                /\ response' = Response(user, StatusOf(scenario), scenario)
        /\ UNCHANGED <<classifierVars, instanceVars, syncVars, clock>>

\* time passes between two requests
Tick ==
    /\ \E d \in TickSteps :
          /\ clock + d <= MaxClock
          /\ clock' = clock + d
    /\ UNCHANGED <<classifierVars, instanceVars, syncVars, rate_limit_store, sends, response>>

SendNext ==
    \/ \E user \in UserIds, scenario \in Scenarios : send_email(user, scenario)
    \/ Tick

SendSpec == ServerInit /\ [][SendNext]_vars

-----------------------------------------------------------------------------
(* Properties *)

\* caller t has a call that returned a value
Finished(t) == pc[t] = "idle" /\ ret[t].status = "ok"

\* the results of the finished call of t, one per message
ResultsOf(t) ==
    IF op[t].name = "classify" THEN <<ret[t].value>>
    ELSE IF op[t].name = "classify_batch" THEN ret[t].value
    ELSE <<>>

\* the similarities of message id against the registry, and the best of them
SimilaritiesOf(id) == Similarities(get_embedding(model, EmailText(id)), category_embeddings)

BestOf(id) == SimilaritiesOf(id)[MaxKeyIndex(SimilaritiesOf(id))]

\* clamp(0, 95, floor(sim * 150)) and clamp(0, 95, round(sim * 150)), as the
\* number of thresholds k, resp. k - 1/2, that sim * 150 reaches (a value
\* exactly halfway between two integers rounds up)
TruncatedScaled(sim) == Cardinality({k \in 1..CEILING : SimGeq(sim, k, SCALE)})

RoundedScaled(sim) == Cardinality({k \in 1..CEILING : SimGeq(sim, 2 * k - 1, 2 * SCALE)})

\* sim * 150 lies in [29.5, 30)
InRoundingWindow(sim) ==
    /\ SimGeq(sim, 2 * MIN_CONFIDENCE - 1, 2 * SCALE)
    /\ ~SimGeq(sim, MIN_CONFIDENCE, SCALE)

\* the result classify computes for message id on the current registry
SingleResult(id) ==
    ClassifyEmbedding(get_embedding(model,
                          prepare_email_text(Inbox[id].subject, Inbox[id].sender,
                                             Inbox[id].content, Inbox[id].sender_name)),
                      category_embeddings)

\* C1: every result of a returned classify_batch call has the category, the
\* confidence, the labels and the reason that classify computes for the
\* message at the same position, on the same provider and registry.
C1_BatchEqualsSingle ==
    \A t \in Callers :
        (Finished(t) /\ op[t].name = "classify_batch") =>
            /\ Len(ret[t].value) = Len(op[t].emails)
            /\ \A i \in 1..Len(op[t].emails) :
                  LET b == ret[t].value[i]
                      c == SingleResult(op[t].emails[i])
                  IN  /\ b.category = c.category
                      /\ b.confidence = c.confidence
                      /\ BagToSet(b.labels) = BagToSet(c.labels)
                      /\ b.reason = c.reason

\* a returned batch of two messages, the first of which fell back to
\* "primary" and the second of which did not
C1_Witness ==
    \E t \in Callers :
        /\ Finished(t) /\ op[t].name = "classify_batch" /\ Len(op[t].emails) = 2
        /\ ret[t].value[1].category = "primary"
        /\ ret[t].value[2].category # "primary"

\* C2: every returned result has an integer confidence in 0..100, at least
\* one label, and its category among its labels.
C2_ResultInvariant ==
    \A t \in Callers :
        Finished(t) =>
            \A i \in 1..Len(ResultsOf(t)) :
                LET r == ResultsOf(t)[i]
                IN  /\ r.confidence \in 0..100
                    /\ BagToSet(r.labels) # {}
                    /\ r.category \in BagToSet(r.labels)

\* a returned classify result that fell back to "primary"
C2_Witness ==
    \E t \in Callers :
        /\ Finished(t) /\ op[t].name = "classify"
        /\ ret[t].value.category = "primary"
        /\ ret[t].value.labels = SetToBag({"primary"})

\* C3: a message whose best similarity gives clamp(0, 95, round(sim * 150))
\* below 30 is returned as category "primary" with confidence 50, by
\* classify and by classify_batch.
C3_LowConfidenceFallsBack ==
    \A t \in Callers :
        Finished(t) =>
            \A i \in 1..Len(ResultsOf(t)) :
                RoundedScaled(BestOf(op[t].emails[i]).sim) < MIN_CONFIDENCE =>
                    /\ ResultsOf(t)[i].category = "primary"
                    /\ ResultsOf(t)[i].confidence = PRIMARY_CONFIDENCE

\* a returned batch with a message whose best category is similar to it, but
\* with a rounded scaled similarity below 30
C3_Witness ==
    \E t \in Callers :
        /\ Finished(t) /\ op[t].name = "classify_batch"
        /\ \E i \in 1..Len(op[t].emails) :
              /\ BestOf(op[t].emails[i]).sim.sgn = 1
              /\ RoundedScaled(BestOf(op[t].emails[i]).sim) < MIN_CONFIDENCE

\* C4 as claimed: the confidence is clamp(0, 95, round(best_similarity * 150));
\* a message with best_similarity * 150 in [29.5, 30) gets confidence 30 and
\* keeps its best category.
C4_RoundedConfidence ==
    \A t \in Callers :
        Finished(t) =>
            \A i \in 1..Len(ResultsOf(t)) :
                LET best == BestOf(op[t].emails[i])
                    r == ResultsOf(t)[i]
                IN  IF RoundedScaled(best.sim) < MIN_CONFIDENCE
                    THEN r.category = "primary" /\ r.confidence = PRIMARY_CONFIDENCE
                    ELSE r.category = best.cat /\ r.confidence = RoundedScaled(best.sim)

\* C4 as amended: the confidence is clamp(0, 95, floor(best_similarity * 150));
\* a message with best_similarity * 150 in [29.5, 30) gets 29 before the
\* fallback and is returned as "primary" with confidence 50.
C4_TruncatedConfidence ==
    \A t \in Callers :
        Finished(t) =>
            \A i \in 1..Len(ResultsOf(t)) :
                LET best == BestOf(op[t].emails[i])
                    r == ResultsOf(t)[i]
                IN  /\ IF TruncatedScaled(best.sim) < MIN_CONFIDENCE
                       THEN r.category = "primary" /\ r.confidence = PRIMARY_CONFIDENCE
                       ELSE r.category = best.cat /\ r.confidence = TruncatedScaled(best.sim)
                    /\ InRoundingWindow(best.sim) =>
                          r.category = "primary" /\ r.confidence = PRIMARY_CONFIDENCE

\* a returned result for a message whose best_similarity * 150 is in [29.5, 30)
C4_Witness ==
    \E t \in Callers :
        /\ Finished(t)
        /\ \E i \in 1..Len(ResultsOf(t)) : InRoundingWindow(BestOf(op[t].emails[i]).sim)

\* C5 as claimed: the provider answers the category-exemplar batch call at
\* most once and at most one caller writes the category vectors.
C5_SingleInitialization ==
    /\ init_embed_calls - init_embed_failed <= 1
    /\ Cardinality(init_writers) <= 1

\* the registry holds a vector for each of the seven scored categories
RegistryComplete ==
    /\ Len(category_embeddings) = Len(CategoryNames)
    /\ \A i \in 1..Len(CategoryNames) : category_embeddings[i].cat = CategoryNames[i]

\* C6: a caller about to run its scoring loop finds a vector for every scored
\* category, and no call ends in the lookup failure of an unpopulated registry.
C6_ScoresOnCompleteRegistry ==
    \A t \in Callers :
        /\ pc[t] = "score" => RegistryComplete
        /\ ret[t] # Raised("ValueError")

\* a caller is about to score while another caller is in the middle of
\* writing the category vectors
C6_Witness ==
    \E t, u \in Callers :
        /\ t # u
        /\ pc[t] = "score"
        /\ pc[u] = "init_write" /\ init_i[u] \in 2..Len(CategoryNames)

\* C7: a call in which a provider call failed has ended, with the provider's
\* failure as its outcome and no result.
C7_ProviderFailurePropagates ==
    \A t \in Callers :
        (\E i \in 1..Len(made[t]) : made[t][i].failed) =>
            pc[t] = "idle" /\ ret[t] = Raised("ProviderError")

\* a batch of several messages whose initialization call was answered and
\* whose message embedding call failed
C7_Witness ==
    \E t \in Callers :
        /\ op[t].name = "classify_batch" /\ Len(op[t].emails) >= 2
        /\ Len(made[t]) = 2 /\ ~made[t][1].failed /\ made[t][2].failed
        /\ ret[t] = Raised("ProviderError")

\* C8: a returned batch has one result per input message, and the result at
\* position i is the classification of the embedding of message i.
C8_BatchKeepsOrderAndLength ==
    \A t \in Callers :
        (Finished(t) /\ op[t].name = "classify_batch") =>
            /\ Len(ret[t].value) = Len(op[t].emails)
            /\ \A i \in 1..Len(op[t].emails) :
                  ret[t].value[i] =
                      ClassifyBatchEmbedding(Encode(model, EmailText(op[t].emails[i])),
                                             category_embeddings)

\* a returned batch of the same message twice, with two results
C8_Witness ==
    \E t \in Callers :
        /\ Finished(t) /\ op[t].name = "classify_batch" /\ Len(op[t].emails) = 2
        /\ op[t].emails[1] = op[t].emails[2]
        /\ Len(ret[t].value) = 2
        /\ ret[t].value[1] = ret[t].value[2]

\* C9: a classify_batch call with an empty list returns the empty list at
\* once, having issued no provider call, and leaves the initialized flag,
\* the category vectors and the count of initialization calls as they were.
C9_EmptyBatchIsInert ==
    [][\A t \in Callers :
          (/\ pc[t] = "idle"
           /\ ncalls'[t] = ncalls[t] + 1
           /\ op'[t].name = "classify_batch" /\ op'[t].emails = <<>>) =>
              /\ pc'[t] = "idle"
              /\ ret'[t] = Returned(<<>>)
              /\ made'[t] = <<>>
              /\ initialized' = initialized
              /\ category_embeddings' = category_embeddings
              /\ init_embed_calls' = init_embed_calls]_vars

\* an empty batch has returned on a registry that is still uninitialized
C9_Witness ==
    \E t \in Callers :
        /\ pc[t] = "idle" /\ op[t].name = "classify_batch" /\ op[t].emails = <<>>
        /\ ret[t] = Returned(<<>>) /\ made[t] = <<>>
        /\ ~initialized /\ category_embeddings = <<>> /\ init_embed_calls = 0

\* C10: the labels of a result are its category and every other scored
\* category whose similarity * 150 is at least 40, each of them once.
C10_LabelsAreCategoryAndSecondaries ==
    \A t \in Callers :
        Finished(t) =>
            \A i \in 1..Len(ResultsOf(t)) :
                LET r == ResultsOf(t)[i]
                    sims == SimilaritiesOf(op[t].emails[i])
                    secondary == {sims[j].cat : j \in {k \in 1..Len(sims) :
                                      /\ sims[k].cat # r.category
                                      /\ SimGeq(sims[k].sim, 4, 15)}}
                IN  /\ BagToSet(r.labels) = {r.category} \cup secondary
                    /\ \A c \in BagToSet(r.labels) : CopiesIn(c, r.labels) = 1

\* a returned result with a secondary label, and with a scored category
\* that has a positive similarity below the threshold and is no label
C10_Witness ==
    \E t \in Callers :
        /\ Finished(t)
        /\ \E i \in 1..Len(ResultsOf(t)) :
              LET r == ResultsOf(t)[i]
                  sims == SimilaritiesOf(op[t].emails[i])
              IN  /\ Cardinality(BagToSet(r.labels)) >= 2
                  /\ \E j \in 1..Len(sims) :
                        /\ sims[j].sim.sgn = 1
                        /\ sims[j].cat \notin BagToSet(r.labels)

\* the fixed taxonomy order of the scored categories
Taxonomy == <<"work", "personal", "social", "promotions", "updates", "finance", "newsletters">>

\* the categories of sims that no category of sims exceeds in similarity
MaxCategories(sims) ==
    {sims[j].cat : j \in {k \in 1..Len(sims) :
                              \A l \in 1..Len(sims) : ~SimLess(sims[k].sim, sims[l].sim)}}

\* the category of S that comes first in the taxonomy order
TaxonomyFirst(S) ==
    Taxonomy[CHOOSE i \in 1..Len(Taxonomy) :
                 /\ Taxonomy[i] \in S
                 /\ \A j \in 1..(i - 1) : Taxonomy[j] \notin S]

\* C11: the category of a result that did not fall back to "primary" is a
\* category of maximum similarity, and of the categories that share the
\* maximum it is the one that comes first in the taxonomy order (work,
\* personal, social, promotions, updates, finance, newsletters), for classify
\* and for classify_batch, whichever call initialized the registry.
C11_FirstMaximumInTaxonomyOrder ==
    \A t \in Callers :
        Finished(t) =>
            \A i \in 1..Len(ResultsOf(t)) :
                LET r == ResultsOf(t)[i]
                    sims == SimilaritiesOf(op[t].emails[i])
                IN  r.category # "primary" =>
                        /\ r.category \in MaxCategories(sims)
                        /\ r.category = TaxonomyFirst(MaxCategories(sims))

\* a returned batch, on a registry that an earlier call initialized, with a
\* message that two categories match equally well and best
C11_Witness ==
    \E t \in Callers :
        /\ Finished(t) /\ op[t].name = "classify_batch" /\ Len(made[t]) = 1
        /\ \E i \in 1..Len(op[t].emails) :
              /\ Cardinality(MaxCategories(SimilaritiesOf(op[t].emails[i]))) >= 2
              /\ ret[t].value[i].category # "primary"

\* the greatest similarity of sims
MaxSimilarity(sims) ==
    sims[CHOOSE k \in 1..Len(sims) : \A l \in 1..Len(sims) : ~SimLess(sims[k].sim, sims[l].sim)].sim

\* C12: the registry never holds a vector for "primary", no similarity is
\* computed for it, and a result has category "primary" exactly when the
\* confidence computed for the best scored category is below 30.
C12_PrimaryOnlyByFallback ==
    /\ \A i \in 1..Len(category_embeddings) : category_embeddings[i].cat # "primary"
    /\ \A t \in Callers :
          Finished(t) =>
              \A i \in 1..Len(ResultsOf(t)) :
                  LET sims == SimilaritiesOf(op[t].emails[i])
                  IN  /\ \A j \in 1..Len(sims) : sims[j].cat # "primary"
                      /\ ResultsOf(t)[i].category = "primary"
                            <=> TruncatedScaled(MaxSimilarity(sims)) < MIN_CONFIDENCE

\* a returned classify result "primary" for a message that is similar to
\* some category, on a registry with all seven vectors
C12_Witness ==
    \E t \in Callers :
        /\ Finished(t) /\ op[t].name = "classify"
        /\ ret[t].value.category = "primary"
        /\ Len(category_embeddings) = Len(Taxonomy)
        /\ MaxSimilarity(SimilaritiesOf(op[t].emails[1])).sgn = 1

\* the registry that one initialization builds with provider model m
ReadyRegistry(m) ==
    [i \in 1..Len(Taxonomy) |->
        [cat |-> Taxonomy[i],
         vec |-> get_embeddings_batch(m, category_texts)[i]]]

\* what classify returns for message id alone on a Ready registry: a function
\* of the provider model and the four fields of the message, and of nothing else
ResultAlone(m, id) ==
    ClassifyEmbedding(get_embedding(m, prepare_email_text(Inbox[id].subject, Inbox[id].sender,
                                                         Inbox[id].content, Inbox[id].sender_name)),
                      ReadyRegistry(m))

\* C13: the result of a classify call is a function of the provider and of
\* the four fields of the message alone, the same whatever calls ran before
\* and whether the call initialized the registry or found it Ready; two
\* messages of one batch with the same fields get the same category and
\* confidence.
C13_ResultDependsOnInputOnly ==
    \A t \in Callers :
        Finished(t) =>
            /\ op[t].name = "classify" => ret[t].value = ResultAlone(model, op[t].emails[1])
            /\ op[t].name = "classify_batch" =>
                  \A i, j \in 1..Len(op[t].emails) :
                      Inbox[op[t].emails[i]] = Inbox[op[t].emails[j]] =>
                          /\ ret[t].value[i].category = ret[t].value[j].category
                          /\ ret[t].value[i].confidence = ret[t].value[j].confidence

\* a classify call that is not the first call, found the registry Ready and
\* returned a scored category
C13_Witness ==
    \E t \in Callers :
        /\ Finished(t) /\ op[t].name = "classify"
        /\ ncalls[t] >= 2 /\ op[t].saw_initialized /\ Len(made[t]) = 1
        /\ ret[t].value.category # "primary"

\* the four fields of message id are empty strings
AllEmpty(id) ==
    /\ Inbox[id].subject = <<>> /\ Inbox[id].sender = <<>>
    /\ Inbox[id].content = <<>> /\ Inbox[id].sender_name = <<>>

\* caller t has ended a classify call on a message of empty strings
EmptyMessageCallEnded(t) ==
    /\ pc[t] = "idle" /\ op[t].name = "classify" /\ AllEmpty(op[t].emails[1])
    /\ ret[t].status # "none"

\* C14 as claimed: classify of a message of four empty strings does not raise
\* (unless the provider fails) and returns category "primary" with
\* confidence 50, whatever vector the provider returns for the empty text.
C14_EmptyMessageIsPrimary ==
    \A t \in Callers :
        EmptyMessageCallEnded(t) =>
            /\ ret[t].status = "raised" => \E k \in 1..Len(made[t]) : made[t][k].failed
            /\ ret[t].status = "ok" =>
                  /\ ret[t].value.category = "primary"
                  /\ ret[t].value.confidence = PRIMARY_CONFIDENCE

\* C14 as amended: classify of a message of four empty strings does not raise
\* (unless the provider fails); it returns what the scoring gives for the
\* vector the provider returns for the empty text: "primary" with confidence
\* 50 when the best confidence is below 30 (always so for a zero vector),
\* else the first best category with its confidence.
C14_EmptyMessageScoredAsEmbedded ==
    \A t \in Callers :
        EmptyMessageCallEnded(t) =>
            /\ ret[t].status = "raised" => \E k \in 1..Len(made[t]) : made[t][k].failed
            /\ ret[t].status = "ok" =>
                  LET sims == Similarities(get_embedding(model, <<>>), category_embeddings)
                      best == TruncatedScaled(MaxSimilarity(sims))
                      r == ret[t].value
                  IN  /\ IF best < MIN_CONFIDENCE
                         THEN r.category = "primary" /\ r.confidence = PRIMARY_CONFIDENCE
                         ELSE /\ r.category = TaxonomyFirst(MaxCategories(sims))
                              /\ r.confidence = best
                      /\ NormSq(get_embedding(model, <<>>)) = 0 => r.category = "primary"

\* classify has returned for a message of four empty strings whose vector
\* is not zero
C14_Witness ==
    \E t \in Callers :
        /\ EmptyMessageCallEnded(t) /\ ret[t].status = "ok"
        /\ NormSq(get_embedding(model, <<>>)) > 0

\* caller t has ended a classify call
ClassifyEnded(t) == pc[t] = "idle" /\ op[t].name = "classify" /\ ret[t].status # "none"

\* a provider call of the current call of t failed
ProviderFailed(t) == \E k \in 1..Len(made[t]) : made[t][k].failed

\* a field that is None or not given, as the empty string
Blank(value) == IF value = None \/ value = Missing THEN <<>> ELSE value

InitSucceeded == init_embed_calls - init_embed_failed

\* C16: in a sequential run, once the category-exemplar call has succeeded
\* no further one is issued, and while the registry is Ready no step issues
\* one or writes a category vector: an initialize_category_embeddings call
\* made then returns at once, with no provider call.
C16_InitializationOnlyOnce ==
    [][/\ InitSucceeded >= 1 => init_embed_calls' = init_embed_calls
       /\ initialized =>
             /\ init_embed_calls' = init_embed_calls
             /\ category_embeddings' = category_embeddings
             /\ init_writers' = init_writers
       /\ \A t \in Callers :
             (initialized /\ pc[t] = "init_check" /\ pc'[t] # "init_check") =>
                 /\ made'[t] = made[t]
                 /\ pc'[t] = IF op[t].name = "initialize_category_embeddings"
                             THEN "idle" ELSE "embed"]_vars

\* a direct initialize_category_embeddings call has returned on a Ready
\* registry without a provider call, after one call whose initialization
\* failed and one whose initialization succeeded
C16_Witness ==
    \E t \in Callers :
        /\ pc[t] = "idle" /\ op[t].name = "initialize_category_embeddings"
        /\ ret[t] = Returned(None) /\ made[t] = <<>>
        /\ initialized /\ init_embed_failed = 1 /\ InitSucceeded = 1

\* C17: once the registry is Ready, every step of every caller, under any
\* interleaving and also when a provider call fails, leaves the initialized
\* flag true and every category's vector as it is.
C17_ReadyIsStable ==
    [][initialized =>
          /\ initialized'
          /\ category_embeddings' = category_embeddings]_vars

\* the registry is Ready, one caller's message call has failed on it, and
\* another caller, which had read the flag before, is still storing vectors
C17_Witness ==
    \E t, u \in Callers :
        /\ t # u /\ initialized
        /\ ret[t] = Raised("ProviderError") /\ Len(made[t]) = 2
        /\ pc[u] = "init_write" /\ init_i[u] \in 2..Len(CategoryNames)

\* C18: under every interleaving, a caller about to score holds the
\* embeddings of its own messages, and every returned result is the one the
\* call returns when it runs alone on the Ready registry.
C18_ConcurrentCallsIndependent ==
    \A t \in Callers :
        /\ pc[t] = "score" =>
              /\ Len(all_embeddings[t]) = Len(op[t].emails)
              /\ \A i \in 1..Len(op[t].emails) :
                    all_embeddings[t][i] = get_embedding(model, EmailText(op[t].emails[i]))
        /\ Finished(t) =>
              \A i \in 1..Len(ResultsOf(t)) :
                  ResultsOf(t)[i] =
                      IF op[t].name = "classify"
                      THEN ClassifyEmbedding(get_embedding(model, EmailText(op[t].emails[i])),
                                             ReadyRegistry(model))
                      ELSE ClassifyBatchEmbedding(
                               get_embeddings_batch(model, email_texts(op[t].emails))[i],
                               ReadyRegistry(model))

\* two callers are about to score different messages on the Ready registry,
\* one of them in a call that found the registry Ready
C18_Witness ==
    \E t, u \in Callers :
        /\ t # u /\ initialized
        /\ pc[t] = "score" /\ pc[u] = "score"
        /\ op[t].emails # op[u].emails
        /\ op[t].saw_initialized /\ Len(made[t]) = 1

\* the exemplars of category c joined by blanks into one text
JoinedExemplars(c) ==
    Join([j \in 1..Len(CATEGORY_DESCRIPTIONS[c]) |-> <<CATEGORY_DESCRIPTIONS[c][j]>>], <<" ">>)

\* the provider calls of the current call of t that carry the category texts
CategoryCalls(t) == {k \in 1..Len(made[t]) : made[t][k].what = "category_texts"}

\* C19: an initialization issues one provider call for the categories, a
\* batch call, before any other call; it carries one text per scored
\* category, the category's exemplars joined, in taxonomy order; the vectors
\* it returns are the provider's vectors of these texts by position, and the
\* vector stored for a category is the one at the category's position.
C19_SingleBatchCallInTaxonomyOrder ==
    /\ Len(category_texts) = Len(Taxonomy)
    /\ \A i \in 1..Len(Taxonomy) : category_texts[i] = JoinedExemplars(Taxonomy[i])
    /\ \A t \in Callers :
          /\ CategoryCalls(t) \subseteq {1}
          /\ \A k \in CategoryCalls(t) : made[t][k].api = "get_embeddings_batch"
          /\ pc[t] \in {"init_write", "init_flag"} =>
                /\ CategoryCalls(t) = {1} /\ Len(made[t]) = 1
                /\ Len(embeddings[t]) = Len(Taxonomy)
                /\ \A i \in 1..Len(Taxonomy) :
                      embeddings[t][i] = Encode(model, JoinedExemplars(Taxonomy[i]))
                /\ \A i \in 1..Len(category_embeddings) :
                      category_embeddings[i] = [cat |-> Taxonomy[i], vec |-> embeddings[t][i]]
    /\ \A i \in 1..Len(category_embeddings) :
          category_embeddings[i] =
              [cat |-> Taxonomy[i], vec |-> Encode(model, JoinedExemplars(Taxonomy[i]))]
    /\ initialized => Len(category_embeddings) = Len(Taxonomy)

\* an initialization has stored its seven vectors, no two of them equal,
\* and is about to set the flag
C19_Witness ==
    \E t \in Callers :
        /\ pc[t] = "init_flag" /\ Len(category_embeddings) = Len(Taxonomy)
        /\ \A i, j \in 1..Len(category_embeddings) :
              i # j => category_embeddings[i].vec # category_embeddings[j].vec

\* the provider call that carries the category texts, and the batch call
\* that carries the composite texts of the messages of a classify_batch call
CategoryBatchCall ==
    [api |-> "get_embeddings_batch", what |-> "category_texts", failed |-> FALSE]

MessageBatchCall ==
    [api |-> "get_embeddings_batch", what |-> "email_texts", failed |-> FALSE]

-----------------------------------------------------------------------------
(* The composite text *)

\* a field that carries text
NonEmpty(value) == value # None /\ value # Missing /\ value # <<>>

\* the characters of sender before its first '@'
LocalPart(sender) ==
    LET n == CHOOSE k \in 0..Len(sender) :
                 /\ \A j \in 1..k : sender[j] # "@"
                 /\ k < Len(sender) => sender[k + 1] = "@"
    IN  [i \in 1..n |-> sender[i]]

\* the first CONTENT_LIMIT characters of content
Kept(content) == [i \in 1..Min(Len(content), CONTENT_LIMIT) |-> content[i]]

\* the items of the composite text of a message, in order
ExpectedLines(message) ==
    (IF NonEmpty(message.subject) THEN <<SubjectPrefix \o message.subject>> ELSE <<>>)
    \o (IF NonEmpty(message.sender_name) THEN <<FromPrefix \o message.sender_name>>
        ELSE IF NonEmpty(message.sender) THEN <<FromPrefix \o LocalPart(message.sender)>>
        ELSE <<>>)
    \o (IF NonEmpty(message.content) THEN <<ContentPrefix \o Kept(message.content)>>
        ELSE <<>>)

\* the items, with a newline between two of them
ExpectedText(message) ==
    LET ls == ExpectedLines(message)
    IN  IF Len(ls) = 0 THEN <<>>
        ELSE IF Len(ls) = 1 THEN ls[1]
        ELSE IF Len(ls) = 2 THEN ls[1] \o Newline \o ls[2]
        ELSE ls[1] \o Newline \o ls[2] \o Newline \o ls[3]

\* two messages that differ only after character CONTENT_LIMIT of content, or
\* only in sender while sender_name is non-empty
SameEssentials(m1, m2) ==
    /\ m1.subject = m2.subject /\ m1.sender_name = m2.sender_name
    /\ \/ m1.sender = m2.sender /\ Kept(m1.content) = Kept(m2.content)
       \/ NonEmpty(m1.sender_name) /\ m1.content = m2.content

\* the message call of t has been answered
MessageCallAnswered(t) ==
    /\ Len(made[t]) > 0
    /\ made[t][Len(made[t])].what = "email_texts"
    /\ ~made[t][Len(made[t])].failed

\* C21: the text sent to the provider for a message is its Subject, From and
\* Content items, in this order and joined by newlines, each present exactly
\* when its field has text: From carries sender_name, else the part of sender
\* before the first '@'; Content carries the first 1500 characters only.  Two
\* messages that differ only after character 1500 of content, or only in
\* sender under a non-empty sender_name, get the same provider input and the
\* same result.
C21_CompositeText ==
    \A t \in Callers :
        (op[t].name \in {"classify", "classify_batch"} /\ Len(op[t].emails) = 1
         /\ op[t].emails[1] \in TextIds /\ MessageCallAnswered(t)) =>
            LET id == op[t].emails[1]
            IN  /\ email_texts(op[t].emails) = <<ExpectedText(Messages[id])>>
                /\ pc[t] = "score" =>
                      all_embeddings[t] = <<Encode(model, ExpectedText(Messages[id]))>>
                /\ \A id2 \in TextIds :
                      SameEssentials(Messages[id], Messages[id2]) =>
                          /\ email_texts(<<id2>>) = email_texts(op[t].emails)
                          /\ Finished(t) =>
                                ret[t] = Outcome(op[t].name,
                                                 MessageEmbeddings(model, op[t].name, <<id2>>),
                                                 category_embeddings)

\* a call on a body longer than 1500 characters returned what the call on the
\* body with another character 1501 returns, and not what the call on the
\* body with another character 1500 returns
C21_Witness ==
    \E t \in Callers :
        /\ Finished(t) /\ op[t].name = "classify" /\ MessageCallAnswered(t)
        /\ op[t].emails[1] \in TextIds
        /\ Len(Messages[op[t].emails[1]].content) > CONTENT_LIMIT
        /\ \E id2 \in TextIds :
              /\ id2 # op[t].emails[1]
              /\ Messages[id2].content # Messages[op[t].emails[1]].content
              /\ SameEssentials(Messages[op[t].emails[1]], Messages[id2])
        /\ \E id3, id4 \in TextIds :
              /\ Len(Messages[id3].content) = CONTENT_LIMIT
              /\ Len(Messages[id4].content) = CONTENT_LIMIT
              /\ email_texts(<<id3>>) # email_texts(<<id4>>)

-----------------------------------------------------------------------------
(* Zero vectors *)

\* the embeddings the provider returned, or returns, to the current call of t
EmbeddingsOf(t) == MessageEmbeddings(model, op[t].name, op[t].emails)

\* caller t has ended a classify or classify_batch call whose message call
\* the provider answered
ScoredCallEnded(t) ==
    /\ pc[t] = "idle" /\ ret[t].status # "none"
    /\ op[t].name \in {"classify", "classify_batch"}
    /\ MessageCallAnswered(t)

\* C22: the similarity of two vectors of which one has zero magnitude is
\* exactly 0.0; a message whose embedding is the zero vector is returned as
\* category "primary" with confidence 50, and the call does not fail.
C22_ZeroVectorIsPrimary ==
    \A t \in Callers :
        /\ pc[t] = "score" =>
              \A i \in 1..Len(all_embeddings[t]), k \in 1..Len(category_embeddings) :
                  (NormSq(all_embeddings[t][i]) = 0 \/ NormSq(category_embeddings[k].vec) = 0)
                      => cosine_similarity(all_embeddings[t][i],
                                           category_embeddings[k].vec) = ZeroSim
        /\ ScoredCallEnded(t) =>
              \A i \in 1..Len(op[t].emails) :
                  EmbeddingsOf(t)[i] = ZeroVec =>
                      /\ ret[t].status = "ok"
                      /\ ResultsOf(t)[i].category = "primary"
                      /\ ResultsOf(t)[i].confidence = PRIMARY_CONFIDENCE

\* a call returned "primary" for a message embedded as the zero vector, on a
\* registry with zero and non-zero category vectors
C22_Witness ==
    \E t \in Callers :
        /\ ScoredCallEnded(t) /\ ret[t].status = "ok"
        /\ \E i \in 1..Len(op[t].emails) :
              EmbeddingsOf(t)[i] = ZeroVec /\ ResultsOf(t)[i].category = "primary"
        /\ \E k \in 1..Len(category_embeddings) : NormSq(category_embeddings[k].vec) = 0
        /\ \E k \in 1..Len(category_embeddings) : NormSq(category_embeddings[k].vec) # 0

-----------------------------------------------------------------------------
(* The reason *)

\* the similarity scored for category c in sims
SimOf(sims, c) == sims[CHOOSE k \in 1..Len(sims) : sims[k].cat = c].sim

\* C23: the reason of every result lists three distinct scored categories,
\* each with its own similarity, in non-increasing order of similarity, and no
\* category left out is more similar than the last one listed; the first
\* entry is the category of maximum similarity that comes first in the
\* taxonomy order, which is the category of the result unless the fallback
\* made it "primary".
C23_ReasonListsTopThree ==
    \A t \in Callers :
        (Finished(t) /\ op[t].name \in {"classify", "classify_batch"}) =>
            \A i \in 1..Len(op[t].emails) :
                LET sims == SimilaritiesOf(op[t].emails[i])
                    reason == ResultsOf(t)[i].reason
                    listed == {reason[k].cat : k \in 1..Len(reason)}
                IN  /\ Len(reason) = TOP_N
                    /\ Cardinality(listed) = TOP_N
                    /\ listed \subseteq {sims[k].cat : k \in 1..Len(sims)}
                    /\ \A k \in 1..Len(reason) :
                          reason[k].sim = Format2f(SimOf(sims, reason[k].cat))
                    /\ \A k \in 1..(Len(reason) - 1) :
                          ~SimLess(SimOf(sims, reason[k].cat), SimOf(sims, reason[k + 1].cat))
                    /\ \A k \in 1..Len(sims) :
                          sims[k].cat \notin listed =>
                              ~SimLess(SimOf(sims, reason[Len(reason)].cat), sims[k].sim)
                    /\ reason[1].cat = TaxonomyFirst(MaxCategories(sims))
                    /\ ResultsOf(t)[i].category # "primary" =>
                          ResultsOf(t)[i].category = reason[1].cat

\* a result that did not fall back, for a message with two categories of
\* maximum similarity: its reason starts with its category
C23_Witness ==
    \E t \in Callers :
        /\ Finished(t) /\ op[t].name \in {"classify", "classify_batch"}
        /\ \E i \in 1..Len(op[t].emails) :
              /\ Cardinality(MaxCategories(SimilaritiesOf(op[t].emails[i]))) >= 2
              /\ ResultsOf(t)[i].category # "primary"
              /\ ResultsOf(t)[i].reason[1].cat = ResultsOf(t)[i].category

-----------------------------------------------------------------------------
(* Provider failures *)

\* C24: a call issues at most two provider calls, the category-exemplar call
\* first and the message call second; a provider call that failed is the last
\* call of its caller's call, which has ended with the provider's error.
C24_NoInternalRetry ==
    \A t \in Callers :
        /\ Len(made[t]) <= 2
        /\ Len(made[t]) = 2 =>
              made[t][1].what = "category_texts" /\ made[t][2].what = "email_texts"
        /\ \A k \in 1..Len(made[t]) :
              made[t][k].failed =>
                  /\ k = Len(made[t])
                  /\ pc[t] = "idle"
                  /\ ret[t] = Raised("ProviderError")

\* a call whose second provider call failed, and nothing followed
C24_Witness ==
    \E t \in Callers :
        /\ Len(made[t]) = 2 /\ made[t][2].failed /\ ~made[t][1].failed
        /\ pc[t] = "idle" /\ ret[t].status = "raised"

-----------------------------------------------------------------------------
(* Confidence and labels of a result *)

\* the results returned so far by the calls in hand, as a set
ReturnedResults ==
    UNION {IF Finished(t) /\ op[t].name \in {"classify", "classify_batch"}
           THEN {[res |-> ResultsOf(t)[i], sims |-> SimilaritiesOf(op[t].emails[i])] :
                    i \in 1..Len(op[t].emails)}
           ELSE {} : t \in Callers}

\* C25: the confidence of a returned result lies in 30..95; it is 50 when the
\* category is "primary", and otherwise it is the scaled best similarity,
\* truncated and capped at 95, which is at least 30.
C25_ConfidenceRange ==
    \A r \in ReturnedResults :
        /\ r.res.confidence \in MIN_CONFIDENCE..CEILING
        /\ r.res.category = "primary" => r.res.confidence = PRIMARY_CONFIDENCE
        /\ r.res.category # "primary" =>
              /\ r.res.confidence = TruncatedScaled(MaxSimilarity(r.sims))
              /\ TruncatedScaled(MaxSimilarity(r.sims)) >= MIN_CONFIDENCE

\* results at both ends of the range and a fallback are returned: a capped
\* confidence of 95, a scored confidence below 50, and "primary" with 50 for
\* a best similarity that scales below 30
C25_Witness ==
    /\ \E r \in ReturnedResults : r.res.category # "primary" /\ r.res.confidence = CEILING
    /\ \E r \in ReturnedResults :
          /\ r.res.category = "primary"
          /\ TruncatedScaled(MaxSimilarity(r.sims)) \in 1..(MIN_CONFIDENCE - 1)

\* C26: a result of category "primary" has the labels {"primary"} and nothing
\* else, every scored similarity then scaling below 30 and so below the
\* secondary-label threshold of 40; a result of another category does not
\* carry the label "primary".
C26_PrimaryLabelsAlone ==
    \A r \in ReturnedResults :
        /\ r.res.category = "primary" =>
              /\ r.res.labels = SetToBag({"primary"})
              /\ \A k \in 1..Len(r.sims) :
                    /\ ~SimGeq(r.sims[k].sim, MIN_CONFIDENCE, SCALE)
                    /\ ~SimGeq(r.sims[k].sim, LABEL_THRESHOLD, SCALE)
        /\ r.res.category # "primary" => ~BagIn("primary", r.res.labels)

\* a fallback result for a message that is similar to some category, and a
\* scored result that carries a secondary label
C26_Witness ==
    /\ \E r \in ReturnedResults :
          /\ r.res.category = "primary"
          /\ \E k \in 1..Len(r.sims) : r.sims[k].sim.sgn = 1
    /\ \E r \in ReturnedResults :
          /\ r.res.category # "primary"
          /\ \E c \in Range(Taxonomy) : c # r.res.category /\ BagIn(c, r.res.labels)

-----------------------------------------------------------------------------
(* A failed initialization *)

\* C27: in a sequential run, when the provider fails the category-exemplar
\* call the registry stays Uninitialized and empty; a call that starts on an
\* Uninitialized registry goes through the check of the flag to the
\* category-exemplar call again; and a classify call that scores after an
\* earlier failed initialization does so on a Ready registry and returns what
\* it returns on a registry that never failed.
C27_FailedInitializationIsRetried ==
    [][\A t \in Callers :
          /\ (pc[t] = "init_embed" /\ ret'[t] = Raised("ProviderError")) =>
                /\ ~initialized' /\ category_embeddings' = <<>>
                /\ pc'[t] = "idle"
          /\ (pc[t] = "idle" /\ pc'[t] # "idle" /\ ~initialized) => pc'[t] = "init_check"
          /\ (pc[t] = "init_check" /\ pc'[t] # "init_check" /\ ~initialized) =>
                pc'[t] = "init_embed"
          /\ (init_embed_failed > 0 /\ pc[t] = "score" /\ pc'[t] = "idle"
              /\ op[t].name = "classify") =>
                /\ initialized /\ RegistryComplete
                /\ ret'[t] = Returned(ResultAlone(model, op[t].emails[1]))
      ]_vars

\* after a failed initialization a classify call initialized the registry
\* itself and returned a scored category
C27_Witness ==
    \E t \in Callers :
        /\ init_embed_failed > 0 /\ initialized /\ category_embeddings # <<>>
        /\ Finished(t) /\ op[t].name = "classify"
        /\ Len(made[t]) = 2 /\ made[t][1].what = "category_texts"
        /\ ret[t].value.category # "primary"

-----------------------------------------------------------------------------
(* The classifier of the process *)

\* C28: at most one SemanticEmailClassifier is constructed, every call of
\* get_semantic_classifier returns that object, also when the first calls
\* overlap, and so one category registry is initialized for the process.
C28_SingleInstance ==
    /\ instances <= 1
    /\ \A t, u \in Callers : (got[t] # None /\ got[u] # None) => got[t] = got[u]
    /\ Cardinality(ready_instances) <= 1

-----------------------------------------------------------------------------
(* Synchronisation *)

\* C29: after any sequence of sync runs no two rows of the table have the
\* same user and the same gmail_id, whatever lists the fetches returned.
C29_NoDuplicateGmailId ==
    \A i, j \in 1..Len(emails_table) :
        emails_table[i] = emails_table[j] => i = j

-----------------------------------------------------------------------------
(* The rate limit of send_email *)

\* the user has RATE_LIMIT successful sends in the WINDOW seconds before now
QuotaUsed(user, now) == Len(Recent(sends[user], now)) >= RATE_LIMIT

\* C30: of the successful sends of a user, any RATE_LIMIT + 1 span WINDOW
\* seconds or more; the timestamps that count against a user are those of
\* the user's successful sends; a request of an authenticated, active user
\* who has 10 successful sends in the last 60 seconds gets status 429, and a
\* request that gets 429 classifies, stores and sends nothing; a request that
\* does not succeed, whatever it fails on, leaves every user's quota as it
\* was; a request that succeeds records its arrival time for its user alone.
C30_SendRateLimit ==
    [][/\ \A u \in UserIds :
             /\ \A k \in 1..(Len(sends'[u]) - RATE_LIMIT) :
                   sends'[u][k + RATE_LIMIT] - sends'[u][k] >= WINDOW
             /\ Recent(rate_limit_store'[u], clock') = Recent(sends'[u], clock')
       /\ clock' = clock =>
             LET u == response'.user
             IN  /\ (response'.active /\ QuotaUsed(u, clock)) => response'.status = 429
                 /\ response'.status = 429 =>
                       /\ QuotaUsed(u, clock)
                       /\ ~response'.classified /\ response'.stored = 0 /\ ~response'.sent
                 /\ response'.status # 200 =>
                       /\ sends' = sends
                       /\ \A v \in UserIds :
                             Recent(rate_limit_store'[v], clock) =
                                Recent(rate_limit_store[v], clock)
                 /\ response'.status = 200 =>
                       sends' = [sends EXCEPT ![u] = Append(@, clock)]
      ]_vars

\* a user with 10 successful sends in the window was refused, while another
\* user, who had sent too, was not counted against that user
C30_Witness ==
    /\ response # NoResponse /\ response.status = 429
    /\ Len(sends[response.user]) = RATE_LIMIT
    /\ \E v \in UserIds : v # response.user /\ Len(sends[v]) > 0

====
